---------------------------- MODULE Spec2Model ----------------------------
(***************************************************************************)
(* Upload orchestration engine of gravixrdp/yt-automation:                 *)
(*   queue_db.py   - the SQLite job store (upload_queue, daily_uploads,    *)
(*                   last_upload_time, youtube_quota, idempotency_keys)    *)
(*   scheduler.py  - poll_and_enqueue, process_upload_job, run_workers,    *)
(*                   reconcile                                             *)
(* Time is counted in seconds since the start of a UTC day 0.  Timestamps  *)
(* that the code stores as ISO-8601 UTC strings and compares as text are   *)
(* modelled by the integer second they denote (all of them are written by  *)
(* datetime.isoformat() in UTC, for which text order is time order).       *)
(***************************************************************************)
EXTENDS Integers, Sequences, FiniteSets, TLC

(***************************************************************************)
(* Program constants (scheduler_config.py).                                *)
(***************************************************************************)
MAX_CONCURRENT_WORKERS == 2
UPLOADS_PER_DAY_PER_DEST == 2
UPLOAD_SPACING_SECONDS == 600
STALE_IN_PROGRESS_HOURS == 2
MAX_UPLOAD_ATTEMPTS == 3
RETRY_BACKOFF_BASE == 2
SECONDS_PER_HOUR == 3600
SECONDS_PER_DAY == 86400
YT_QUOTA_UNITS_PER_UPLOAD == 1600
TELEGRAM_RATE_LIMIT_PER_MIN == 20
RATE_WINDOW == 60
SCRAPINGDOG_ERROR_THRESHOLD_PERCENT == 20
MIN_SAMPLE_SIZE == 10
\* QUOTA_SAFETY_MARGIN = 0.8, kept as the fraction 8/10
QUOTA_SAFETY_MARGIN_TENTHS == 8
\* DISPLAY_TIMEZONE = Asia/Kolkata: UTC+05:30 all year
TZ_OFFSET_SECONDS == 19800
\* UPLOAD_SLOTS_LOCAL = 09:00,12:00,15:00,18:00 as seconds after local midnight
UPLOAD_SLOTS_LOCAL == <<9 * SECONDS_PER_HOUR, 12 * SECONDS_PER_HOUR,
                        15 * SECONDS_PER_HOUR, 18 * SECONDS_PER_HOUR>>
\* time.sleep(min(wait, 300)) in the spacing step
SPACING_SLEEP_CAP == 300

(***************************************************************************)
(* Bounds of the model.                                                    *)
(***************************************************************************)
MaxJobs == 2
MaxTicks == 2
MaxRetryCount == 4
MaxSleeps == 3
MaxCharges == 3
MaxCleanupJobs == 2
MaxCleanupAttempts == 2
MaxRecords == 3
MaxRuns == 2
MaxQuietCalls == 2
MaxTurns == 1
\* SCRAPINGDOG_WINDOW_SIZE, which the environment sets (100 when it does not)
SCRAPINGDOG_WINDOW_SIZE == 10

\* SQL NULL of the nullable timestamp column next_attempt_after, and of the
\* nullable text column error_msg.
NULL == 0 - 1
NO_ERROR == "<NULL>"

\* The candidates the store is offered: (source_tab, row_id) is the key, the
\* other columns are the candidate's attributes as poll_and_enqueue passes them.
Candidates ==
    { [source_tab |-> "tabA", row_id |-> 1, priority_score |-> 80, scraped_date |-> 2, dest_account_id |-> "yt_1"],
      [source_tab |-> "tabA", row_id |-> 2, priority_score |-> 50, scraped_date |-> 2, dest_account_id |-> "yt_1"],
      [source_tab |-> "tabB", row_id |-> 1, priority_score |-> 50, scraped_date |-> 1, dest_account_id |-> "yt_2"] }

\* the candidates of one source tab
CandidatesA == {c \in Candidates : c.source_tab = "tabA"}

Dests == {"yt_1", "yt_2"}

\* error_msg values: NULL, a pipeline error, the lock conflict, the cancel mark.
ErrTransient == "download_failed"
ErrConflict == "status_conflict: STATUS_CONFLICT"
ErrDestRemoved == "dest_removed"

(***************************************************************************)
(* The job table as a value: each operation of queue_db.py is a function   *)
(* from the table (and the clock t) to the table, as its SQL statement is. *)
(***************************************************************************)
KeyExists(q, tab, rid) ==
    \E i \in DOMAIN q : q[i].source_tab = tab /\ q[i].row_id = rid

NewRow(c, t) ==
    [source_tab |-> c.source_tab, row_id |-> c.row_id,
     priority_score |-> c.priority_score, scraped_date |-> c.scraped_date,
     dest_account_id |-> c.dest_account_id,
     status |-> "QUEUED", retry_count |-> 0, next_attempt_after |-> NULL,
     updated_at |-> t, error_msg |-> NO_ERROR]

\* The insert as it would be under UNIQUE(row_id) alone.
InsertOrIgnore_RowIdOnly(q, nid, c, t) ==
    IF \E i \in DOMAIN q : q[i].row_id = c.row_id THEN q
    ELSE [i \in (DOMAIN q) \cup {nid} |-> IF i = nid THEN NewRow(c, t) ELSE q[i]]

\* INSERT OR IGNORE ... under UNIQUE(source_tab, row_id).  The surrogate id is
\* only ever compared for equality, so the ids an ignored insert skips are not
\* modelled: a new row takes the next free id nid.
InsertOrIgnore(q, nid, c, t) ==
    IF KeyExists(q, c.source_tab, c.row_id) THEN q
    ELSE [i \in (DOMAIN q) \cup {nid} |-> IF i = nid THEN NewRow(c, t) ELSE q[i]]

\* UPDATE upload_queue SET ... WHERE id=?  (no row: nothing happens)
UpdateRow(q, id, r) ==
    IF id \in DOMAIN q THEN [q EXCEPT ![id] = r] ELSE q

mark_in_progress(q, id, t) ==
    IF id \in DOMAIN q
    THEN UpdateRow(q, id, [q[id] EXCEPT !.status = "IN_PROGRESS", !.updated_at = t])
    ELSE q

\* mark_completed that writes the timestamp and leaves the status.
mark_completed_NoStatus(q, id, t) ==
    IF id \in DOMAIN q
    THEN UpdateRow(q, id, [q[id] EXCEPT !.updated_at = t])
    ELSE q

mark_completed(q, id, t) ==
    IF id \in DOMAIN q
    THEN UpdateRow(q, id, [q[id] EXCEPT !.status = "COMPLETED", !.updated_at = t])
    ELSE q

RECURSIVE Pow3(_)
Pow3(n) == IF n <= 0 THEN 1 ELSE 3 * Pow3(n - 1)

\* A backoff that grows by the base with every failure.
Backoff_Linear(retry_count) == RETRY_BACKOFF_BASE * retry_count

\* backoff = RETRY_BACKOFF_BASE * (3 ** (retry_count - 1)), in seconds
Backoff(retry_count) == RETRY_BACKOFF_BASE * Pow3(retry_count - 1)

\* mark_failed with the retry test off by one (retry_count <= max_retries).
mark_failed_row_OffByOne(r, error_msg, max_retries, t) ==
    LET retry_count == r.retry_count + 1 IN
    IF retry_count <= max_retries
    THEN [r EXCEPT !.status = "QUEUED", !.retry_count = retry_count,
                   !.next_attempt_after = t + Backoff(retry_count),
                   !.error_msg = error_msg, !.updated_at = t]
    ELSE [r EXCEPT !.status = "FAILED", !.retry_count = retry_count,
                   !.error_msg = error_msg, !.updated_at = t]

mark_failed_row(r, error_msg, max_retries, t) ==
    LET retry_count == r.retry_count + 1 IN
    IF retry_count < max_retries
    THEN [r EXCEPT !.status = "QUEUED", !.retry_count = retry_count,
                   !.next_attempt_after = t + Backoff(retry_count),
                   !.error_msg = error_msg, !.updated_at = t]
    ELSE [r EXCEPT !.status = "FAILED", !.retry_count = retry_count,
                   !.error_msg = error_msg, !.updated_at = t]

mark_failed(q, id, error_msg, max_retries, t) ==
    IF id \in DOMAIN q
    THEN UpdateRow(q, id, mark_failed_row(q[id], error_msg, max_retries, t))
    ELSE q

\* requeue_at that also starts the retry count again.
requeue_at_ResetRetry(q, id, when, t) ==
    IF id \in DOMAIN q
    THEN UpdateRow(q, id, [q[id] EXCEPT !.status = "QUEUED",
                                        !.next_attempt_after = when,
                                        !.retry_count = 0,
                                        !.updated_at = t])
    ELSE q

requeue_at(q, id, when, t) ==
    IF id \in DOMAIN q
    THEN UpdateRow(q, id, [q[id] EXCEPT !.status = "QUEUED",
                                        !.next_attempt_after = when,
                                        !.updated_at = t])
    ELSE q

CancelMatches(r, dest) ==
    r.dest_account_id = dest /\ r.status \in {"QUEUED", "IN_PROGRESS"}

\* cancel_jobs_for_dest without the destination in its WHERE clause.
cancel_jobs_for_dest_AnyDest(q, dest, t) ==
    [i \in DOMAIN q |->
        IF q[i].status \in {"QUEUED", "IN_PROGRESS"}
        THEN [q[i] EXCEPT !.status = "FAILED", !.error_msg = ErrDestRemoved,
                          !.updated_at = t, !.next_attempt_after = NULL]
        ELSE q[i]]

cancel_jobs_for_dest(q, dest, t) ==
    [i \in DOMAIN q |->
        IF CancelMatches(q[i], dest)
        THEN [q[i] EXCEPT !.status = "FAILED", !.error_msg = ErrDestRemoved,
                          !.updated_at = t, !.next_attempt_after = NULL]
        ELSE q[i]]

\* The stale test without the age condition.
IsStale_AnyAge(r, hours, t) == r.status = "IN_PROGRESS"

\* WHERE status='IN_PROGRESS' AND updated_at < cutoff
IsStale(r, hours, t) ==
    r.status = "IN_PROGRESS" /\ r.updated_at < t - hours * SECONDS_PER_HOUR

reset_stale_jobs(q, hours, t) ==
    [i \in DOMAIN q |->
        IF IsStale(q[i], hours, t)
        THEN [q[i] EXCEPT !.status = "QUEUED", !.updated_at = t]
        ELSE q[i]]

\* WHERE status='FAILED' AND error_msg LIKE 'status_conflict:%'
IsFailedConflict(r) == r.status = "FAILED" /\ r.error_msg = ErrConflict

requeue_failed_status_conflicts(q, t) ==
    [i \in DOMAIN q |->
        IF IsFailedConflict(q[i])
        THEN [q[i] EXCEPT !.status = "QUEUED", !.retry_count = 0,
                          !.next_attempt_after = NULL, !.error_msg = NO_ERROR,
                          !.updated_at = t]
        ELSE q[i]]

\* the number of rows an UPDATE changed (cursor.rowcount)
CancelRowCount(q, dest) == Cardinality({i \in DOMAIN q : CancelMatches(q[i], dest)})

StaleRowCount(q, hours, t) == Cardinality({i \in DOMAIN q : IsStale(q[i], hours, t)})

ConflictRowCount(q) == Cardinality({i \in DOMAIN q : IsFailedConflict(q[i])})

(***************************************************************************)
(* get_next_jobs: WHERE status='QUEUED' AND (next_attempt_after IS NULL OR *)
(* next_attempt_after <= now) ORDER BY priority_score DESC, scraped_date   *)
(* ASC LIMIT ?.  Rows equal on both sort keys come in an order SQL leaves  *)
(* open, so the result is any of the orders the ORDER BY admits.           *)
(***************************************************************************)
IsDue(r, t) ==
    r.status = "QUEUED" /\ (r.next_attempt_after = NULL \/ r.next_attempt_after <= t)

\* The sort with priority_score ascending (DESC forgotten).
SortsBefore_PriorityAsc(r1, r2) ==
    \/ r1.priority_score < r2.priority_score
    \/ r1.priority_score = r2.priority_score /\ r1.scraped_date < r2.scraped_date

\* r1 sorts strictly before r2
SortsBefore(r1, r2) ==
    \/ r1.priority_score > r2.priority_score
    \/ r1.priority_score = r2.priority_score /\ r1.scraped_date < r2.scraped_date

Orderings(q, S) ==
    { s \in [1..Cardinality(S) -> S] :
        /\ \A i, j \in 1..Cardinality(S) : i # j => s[i] # s[j]
        /\ \A i, j \in 1..Cardinality(S) : i < j => ~SortsBefore(q[s[j]], q[s[i]]) }

Min2(a, b) == IF a < b THEN a ELSE b

Limit(s, n) == SubSeq(s, 1, Min2(n, Len(s)))

get_next_jobs(q, limit, t) ==
    { Limit(s, limit) : s \in Orderings(q, {i \in DOMAIN q : IsDue(q[i], t)}) }

(***************************************************************************)
(* The auxiliary tables of queue_db.py as values.                          *)
(*   daily_uploads     set of <<dest_account_id, upload_date, row_id>>,    *)
(*                     the columns of its UNIQUE constraint                *)
(*   last_upload_time  dest_account_id -> last_upload_at (NULL: no row)    *)
(*   youtube_quota     <<project_id, quota_date>> -> units_used            *)
(*   idempotency_keys  idem_key -> queue_id                                *)
(* Dates are day numbers: strftime("%Y-%m-%d") of the UTC clock.           *)
(***************************************************************************)
UtcDate(t) == t \div SECONDS_PER_DAY

\* datetime.now(ZoneInfo(DISPLAY_TIMEZONE)).date()
LocalDate(t) == (t + TZ_OFFSET_SECONDS) \div SECONDS_PER_DAY

get_uploads_today(du, dest, t) ==
    Cardinality({r \in du : r[1] = dest /\ r[2] = UtcDate(t)})

\* daily_uploads with UNIQUE(dest_account_id, upload_date): one record a day
record_upload_NoItem(du, dest, row_id, t) ==
    IF \E r \in du : r[1] = dest /\ r[2] = UtcDate(t) THEN du
    ELSE du \cup {<<dest, UtcDate(t), row_id>>}

\* INSERT OR IGNORE INTO daily_uploads
record_upload(du, dest, row_id, t) == du \cup {<<dest, UtcDate(t), row_id>>}

\* INSERT OR REPLACE INTO last_upload_time
record_last_upload(lut, dest, t) == [lut EXCEPT ![dest] = t]

get_last_upload_time(lut, dest) == lut[dest]

\* The upsert as INSERT OR REPLACE: the row is overwritten, not incremented.
record_quota_usage_Replace(yq, project_id, units, t) ==
    LET u == IF units <= 0 THEN YT_QUOTA_UNITS_PER_UPLOAD ELSE units
        k == <<project_id, UtcDate(t)>>
    IN  [x \in (DOMAIN yq) \cup {k} |-> IF x = k THEN u ELSE yq[x]]

\* INSERT ... ON CONFLICT(project_id, quota_date) DO UPDATE SET units_used = units_used + ?
record_quota_usage(yq, project_id, units, t) ==
    LET u == IF units <= 0 THEN YT_QUOTA_UNITS_PER_UPLOAD ELSE units
        k == <<project_id, UtcDate(t)>>
    IN  IF k \in DOMAIN yq
        THEN [yq EXCEPT ![k] = @ + u]
        ELSE [x \in (DOMAIN yq) \cup {k} |-> IF x = k THEN u ELSE yq[x]]

\* int(YT_QUOTA_LIMIT_PER_PROJECT * QUOTA_SAFETY_MARGIN)
QuotaBudget(limit) == (limit * QUOTA_SAFETY_MARGIN_TENTHS) \div 10

UnitsUsed(yq, project_id, date) ==
    IF <<project_id, date>> \in DOMAIN yq THEN yq[<<project_id, date>>] ELSE 0

Max2(a, b) == IF a > b THEN a ELSE b

get_quota_remaining(yq, project_id, limit, t) ==
    Max2(0, QuotaBudget(limit) - UnitsUsed(yq, project_id, UtcDate(t)))

\* Python None as a project id
NONE_PROJECT == "<None>"
DEFAULT_PROJECT == "default"

\* the loop of get_cheapest_project over projects[i..]: <<best_id, best_remaining>>
RECURSIVE CheapestFrom(_, _, _, _, _, _, _)
CheapestFrom(yq, projects, limit, t, i, best_id, best_remaining) ==
    IF i > Len(projects) THEN <<best_id, best_remaining>>
    ELSE LET remaining == get_quota_remaining(yq, projects[i], limit, t) IN
         IF remaining > best_remaining
         THEN CheapestFrom(yq, projects, limit, t, i + 1, projects[i], remaining)
         ELSE CheapestFrom(yq, projects, limit, t, i + 1, best_id, best_remaining)

\* projects: the keys of YT_PROJECT_KEYS in dict order
get_cheapest_project(yq, projects, limit, t) ==
    IF Len(projects) = 0 THEN DEFAULT_PROJECT
    ELSE LET best == CheapestFrom(yq, projects, limit, t, 1, NONE_PROJECT, 0 - 1) IN
         IF best[2] < YT_QUOTA_UNITS_PER_UPLOAD THEN NONE_PROJECT ELSE best[1]

\* sha256(f"{expected_hash}:{dest_account_id}"): the digest stands for its text
IdemKey(content_hash, dest) == content_hash \o ":" \o dest

check_idempotency(ik, idem_key) == idem_key \in DOMAIN ik

\* INSERT OR REPLACE INTO idempotency_keys: the later job id replaces the first
record_idempotency_Replace(ik, idem_key, queue_id) ==
    [x \in (DOMAIN ik) \cup {idem_key} |-> IF x = idem_key THEN queue_id ELSE ik[x]]

\* INSERT OR IGNORE INTO idempotency_keys
record_idempotency(ik, idem_key, queue_id) ==
    IF idem_key \in DOMAIN ik THEN ik
    ELSE [x \in (DOMAIN ik) \cup {idem_key} |-> IF x = idem_key THEN queue_id ELSE ik[x]]

(***************************************************************************)
(* Upload slots (scheduler.py).                                            *)
(***************************************************************************)
\* the slots of a local day as UTC seconds
slot_times_for_day(day_local) ==
    [k \in 1..Len(UPLOAD_SLOTS_LOCAL) |->
        day_local * SECONDS_PER_DAY + UPLOAD_SLOTS_LOCAL[k] - TZ_OFFSET_SECONDS]

\* The slot lookup that stays on today's slots when the cap is reached.
next_slot_time_SameDay(uploads_today, t) ==
    LET today_slots == slot_times_for_day(LocalDate(t))
        max_slots_today == Min2(Len(today_slots), UPLOADS_PER_DAY_PER_DEST)
    IN  IF uploads_today < max_slots_today THEN today_slots[uploads_today + 1]
        ELSE today_slots[1]

next_slot_time(uploads_today, t) ==
    LET today_slots == slot_times_for_day(LocalDate(t))
        max_slots_today == Min2(Len(today_slots), UPLOADS_PER_DAY_PER_DEST)
        tomorrow_slots == slot_times_for_day(LocalDate(t) + 1)
    IN  IF uploads_today < max_slots_today THEN today_slots[uploads_today + 1]
        ELSE IF Len(tomorrow_slots) = 0 THEN t + 24 * SECONDS_PER_HOUR
        ELSE tomorrow_slots[1]

(***************************************************************************)
(* State.                                                                  *)
(***************************************************************************)
\* the Telegram users that send commands
UserIds == {111, 222}

\* SCRAPINGDOG_KEYS as the environment gives them
SCRAPINGDOG_KEYS == <<"key_a", "key_b">>

\* KeyRotator.__init__: index 0, an empty result log per key, nothing disabled
KeyRotator(keys) ==
    [keys |-> keys, index |-> 0,
     request_log |-> [k \in {keys[i] : i \in 1..Len(keys)} |-> <<>>],
     disabled_keys |-> {}]

VARIABLES
    upload_queue,   \* table upload_queue: id -> row
    next_id,        \* the next id AUTOINCREMENT hands out
    now,            \* the wall clock, seconds
    nticks,         \* how often the clock has advanced
    last,           \* the last store call, its arguments and what it returned
    sheet,          \* the spreadsheet: the rows of the source tabs, in sheet order
    daily_uploads,  \* table daily_uploads
    last_upload_time, \* table last_upload_time
    youtube_quota,  \* table youtube_quota
    idempotency_keys, \* table idempotency_keys
    workers,        \* the pool threads of run_workers: where each one is in process_upload_job
    uploads,        \* idem key text -> how often the upload adapter reported success for it
    config,         \* the environment the process was started with
    destination_cleanup_jobs, \* table destination_cleanup_jobs, in id order
    main,           \* the main thread: where it is in main(), and _shutdown_event
    rate_log,       \* telegram_bot._rate_log: user id -> the times of the calls let through
    rotator,        \* the KeyRotator of the scraper: _index, _request_log, _disabled_keys
    credentials,    \* the "accounts" object of the credentials file: account id -> record
    refresh         \* the callers of refresh_youtube_token: where each one is, and its copy of the account

storeVars == <<upload_queue, next_id, now, nticks, last>>

auxVars == <<daily_uploads, last_upload_time, youtube_quota, idempotency_keys>>

\* what no step of the upload pipeline writes
credVars == <<credentials, refresh>>

botVars == <<rate_log, rotator, credVars>>

\* the callers of refresh_youtube_token that are followed
RefreshIds == {1}

\* get_account of an id the file does not have: None
NoAccount == [platform |-> "<None>"]

\* a caller outside refresh_youtube_token
IdleRefresh == [pc |-> "idle", account_id |-> "", account |-> NoAccount, reason |-> ""]

envVars == <<config, destination_cleanup_jobs, main, botVars>>

pipeVars == <<sheet, daily_uploads, last_upload_time, youtube_quota,
              idempotency_keys, workers, uploads, envVars>>

vars == <<upload_queue, next_id, now, nticks, last, sheet, daily_uploads,
          last_upload_time, youtube_quota, idempotency_keys, workers, uploads, envVars>>

WorkerIds == 1..MAX_CONCURRENT_WORKERS

\* a pool thread with no job
IdleWorker == [pc |-> "idle", id |-> 0, project |-> NONE_PROJECT, res |-> ""]

\* STATIC_MAPPINGS as shipped: the empty JSON object
NoMapping == [t \in {} |-> ""]

\* YT_QUOTA_LIMIT_PER_PROJECT, YT_PROJECT_KEYS as shipped; sheet_faults: whether
\* the Sheets API raises HttpError in this run of the system; mappings: the
\* data rows of the destinations_mapping tab; static_mappings: STATIC_MAPPINGS
DefaultConfig == [quota_limit |-> 10000, projects |-> <<>>, sheet_faults |-> FALSE,
       mappings |-> <<>>, static_mappings |-> NoMapping]

\* The state after init_db() on a fresh database, with the spreadsheet rows and
\* the environment given.
\* main() after reconcile, entering the polling loop; _shutdown_event clear
MainStart == [pc |-> "while", shutdown |-> FALSE, enqueued |-> FALSE]

\* the tables after init_db on a new database, the sheet and the environment
InitStore(rows, cfg) ==
    /\ upload_queue = <<>>
    /\ next_id = 1
    /\ now = 0
    /\ nticks = 0
    /\ last = [op |-> "init"]
    /\ sheet = rows
    /\ daily_uploads = {}
    /\ last_upload_time = [d \in Dests |-> NULL]
    /\ youtube_quota = <<>>
    /\ idempotency_keys = <<>>
    /\ workers = [w \in WorkerIds |-> IdleWorker]
    /\ uploads = <<>>
    /\ config = cfg
    /\ destination_cleanup_jobs = <<>>
    /\ rate_log = [u \in UserIds |-> <<>>]
    /\ rotator = KeyRotator(SCRAPINGDOG_KEYS)
    /\ credentials = <<>>
    /\ refresh = [p \in RefreshIds |-> IdleRefresh]

InitWith(rows, cfg) == InitStore(rows, cfg) /\ main = MainStart

Init == InitWith(<<>>, DefaultConfig)

(***************************************************************************)
(* The job store called directly: each action is one call of a queue_db    *)
(* function, which is one SQLite transaction.  `last` keeps the name of    *)
(* the call and what it returned.                                          *)
(***************************************************************************)
Call_enqueue(c) ==
    /\ next_id <= MaxJobs \/ KeyExists(upload_queue, c.source_tab, c.row_id)
    /\ upload_queue' = InsertOrIgnore(upload_queue, next_id, c, now)
    /\ next_id' = IF upload_queue' = upload_queue THEN next_id ELSE next_id + 1
    \* inserted = conn.total_changes > 0
    /\ last' = [op |-> "enqueue", ret |-> (upload_queue' # upload_queue)]
    /\ UNCHANGED <<now, nticks>>
    /\ UNCHANGED pipeVars

Call_get_next_jobs(limit) ==
    /\ \E res \in get_next_jobs(upload_queue, limit, now) :
          last' = [op |-> "get_next_jobs", limit |-> limit, ret |-> res]
    /\ UNCHANGED <<upload_queue, next_id, now, nticks>>
    /\ UNCHANGED pipeVars

Call_mark_in_progress(id) ==
    /\ upload_queue' = mark_in_progress(upload_queue, id, now)
    /\ last' = [op |-> "mark_in_progress"]
    /\ UNCHANGED <<next_id, now, nticks>>
    /\ UNCHANGED pipeVars

Call_mark_completed(id) ==
    /\ upload_queue' = mark_completed(upload_queue, id, now)
    /\ last' = [op |-> "mark_completed"]
    /\ UNCHANGED <<next_id, now, nticks>>
    /\ UNCHANGED pipeVars

Call_mark_failed(id, error_msg, max_retries) ==
    /\ id \in DOMAIN upload_queue => upload_queue[id].retry_count < MaxRetryCount
    /\ upload_queue' = mark_failed(upload_queue, id, error_msg, max_retries, now)
    /\ last' = [op |-> "mark_failed"]
    /\ UNCHANGED <<next_id, now, nticks>>
    /\ UNCHANGED pipeVars

Call_requeue_at(id, when) ==
    /\ upload_queue' = requeue_at(upload_queue, id, when, now)
    /\ last' = [op |-> "requeue_at"]
    /\ UNCHANGED <<next_id, now, nticks>>
    /\ UNCHANGED pipeVars

Call_cancel_jobs_for_dest(dest) ==
    /\ upload_queue' = cancel_jobs_for_dest(upload_queue, dest, now)
    /\ last' = [op |-> "cancel_jobs_for_dest",
                ret |-> CancelRowCount(upload_queue, dest)]
    /\ UNCHANGED <<next_id, now, nticks>>
    /\ UNCHANGED pipeVars

Call_reset_stale_jobs(hours) ==
    /\ upload_queue' = reset_stale_jobs(upload_queue, hours, now)
    /\ last' = [op |-> "reset_stale_jobs",
                ret |-> StaleRowCount(upload_queue, hours, now)]
    /\ UNCHANGED <<next_id, now, nticks>>
    /\ UNCHANGED pipeVars

Call_requeue_failed_status_conflicts ==
    /\ upload_queue' = requeue_failed_status_conflicts(upload_queue, now)
    /\ last' = [op |-> "requeue_failed_status_conflicts",
                ret |-> ConflictRowCount(upload_queue)]
    /\ UNCHANGED <<next_id, now, nticks>>
    /\ UNCHANGED pipeVars

\* The clock moves on by d seconds.
Tick(d) ==
    /\ nticks < MaxTicks
    /\ now' = now + d
    /\ nticks' = nticks + 1
    /\ last' = [op |-> "tick"]
    /\ UNCHANGED <<upload_queue, next_id>>
    /\ UNCHANGED pipeVars

(***************************************************************************)
(* Admission into the store: enqueue against jobs in every status.         *)
(***************************************************************************)
EnqueueNext ==
    \/ \E c \in Candidates : Call_enqueue(c)
    \/ \E id \in 1..MaxJobs : Call_mark_in_progress(id)
    \/ \E id \in 1..MaxJobs : Call_mark_completed(id)
    \/ \E id \in 1..MaxJobs :
          /\ id \in DOMAIN upload_queue /\ upload_queue[id].retry_count < 1
          /\ Call_mark_failed(id, ErrTransient, 0)

SpecEnqueue == Init /\ [][EnqueueNext]_vars

SameKey(r, c) == r.source_tab = c.source_tab /\ r.row_id = c.row_id

\* C1: the store never holds two jobs with the same (source_tab, row_id); an
\* enqueue of a key the store does not hold returns True and adds exactly one
\* row, QUEUED with retry_count 0, leaving the others as they were; an enqueue
\* of a key the store holds, whatever that job's status, returns False and
\* leaves the store unchanged.
C1_EnqueueAtMostOnce ==
    [][ /\ \A i, j \in DOMAIN upload_queue' :
             i # j => ~SameKey(upload_queue'[i], upload_queue'[j])
        /\ \A c \in Candidates : Call_enqueue(c) =>
             LET had == \E i \in DOMAIN upload_queue : SameKey(upload_queue[i], c)
                 new == (DOMAIN upload_queue') \ (DOMAIN upload_queue)
             IN  /\ last'.ret = ~had
                 /\ had => upload_queue' = upload_queue
                 /\ ~had =>
                      /\ Cardinality(new) = 1
                      /\ \A n \in new :
                            /\ SameKey(upload_queue'[n], c)
                            /\ upload_queue'[n].status = "QUEUED"
                            /\ upload_queue'[n].retry_count = 0
                      /\ \A i \in DOMAIN upload_queue :
                            i \in DOMAIN upload_queue' /\ upload_queue'[i] = upload_queue[i]
      ]_vars

\* C1 witness: an enqueue was refused while every job in the store, so also the
\* one holding the refused key, is COMPLETED or FAILED.
C1_Witness ==
    /\ last.op = "enqueue" /\ last.ret = FALSE
    /\ Cardinality(DOMAIN upload_queue) = 2
    /\ \E i \in DOMAIN upload_queue : upload_queue[i].status = "COMPLETED"
    /\ \E i \in DOMAIN upload_queue : upload_queue[i].status = "FAILED"

(***************************************************************************)
(* The retry state machine: failures of a job, with the clock running.     *)
(***************************************************************************)
RetryNext ==
    \/ \E c \in CandidatesA : Call_enqueue(c)
    \/ \E id \in 1..MaxJobs, e \in {ErrTransient, ErrConflict},
          m \in {0, MAX_UPLOAD_ATTEMPTS} : Call_mark_failed(id, e, m)
    \/ Tick(RETRY_BACKOFF_BASE)

SpecRetry == Init /\ [][RetryNext]_vars

\* 3^(n-1) for the n-th failure, as the retry schedule 2, 6, 18, ... states it
ThreeToThe == <<1, 3, 9, 27, 81, 243>>

\* C6: every mark_failed(id, error, max_retries) on a job raises its retry_count
\* by exactly 1 and stores the error; below max_retries the job is QUEUED with
\* next_attempt_after = now + backoff, otherwise it is FAILED (so with
\* max_retries = 3: QUEUED/1, QUEUED/2, FAILED/3).
C6_MarkFailed ==
    [][ \A id \in 1..MaxJobs, e \in {ErrTransient, ErrConflict}, m \in {0, MAX_UPLOAD_ATTEMPTS} :
          (id \in DOMAIN upload_queue /\ Call_mark_failed(id, e, m)) =>
             LET old == upload_queue[id]
                 new == upload_queue'[id]
                 n == old.retry_count + 1
             IN  /\ new.retry_count = n
                 /\ new.error_msg = e
                 /\ n < m => /\ new.status = "QUEUED"
                             /\ new.next_attempt_after = now + RETRY_BACKOFF_BASE * ThreeToThe[n]
                 /\ n >= m => new.status = "FAILED"
      ]_vars

\* C6 witness: a job failed a third time, after the clock has moved, and is
\* FAILED with retry_count 3; its next_attempt_after is still the one of the
\* second failure.
C6_Witness ==
    /\ last.op = "mark_failed" /\ now > 0
    /\ \E i \in DOMAIN upload_queue :
          /\ upload_queue[i].status = "FAILED"
          /\ upload_queue[i].retry_count = 3
          /\ upload_queue[i].updated_at = now
          /\ upload_queue[i].next_attempt_after = 3 * RETRY_BACKOFF_BASE

(***************************************************************************)
(* Dispatch order: which jobs are due, and in which order.                 *)
(***************************************************************************)
DueNext ==
    \/ \E c \in Candidates : Call_enqueue(c)
    \/ \E id \in 1..MaxJobs :
          /\ id \in DOMAIN upload_queue /\ upload_queue[id].status = "QUEUED"
          /\ Call_mark_in_progress(id)
    \/ \E id \in 1..MaxJobs :
          /\ id \in DOMAIN upload_queue /\ upload_queue[id].status = "IN_PROGRESS"
          /\ Call_mark_completed(id)
    \/ \E id \in 1..MaxJobs :
          /\ id \in DOMAIN upload_queue /\ upload_queue[id].status = "IN_PROGRESS"
          /\ upload_queue[id].retry_count < 1
          /\ Call_mark_failed(id, ErrTransient, MAX_UPLOAD_ATTEMPTS)
    \/ \E limit \in 1..MAX_CONCURRENT_WORKERS : Call_get_next_jobs(limit)
    \/ Tick(RETRY_BACKOFF_BASE)

SpecDue == Init /\ [][DueNext]_vars

\* C8: get_next_jobs(limit) returns at most limit jobs, each once, each QUEUED
\* with next_attempt_after null or not after now; the result is ordered by
\* priority_score descending, then scraped_date ascending; and no due job left
\* out sorts before a returned one.
C8_NextDueJobs ==
    last.op = "get_next_jobs" =>
        LET res == last.ret
            got == {res[k] : k \in 1..Len(res)}
            due == {i \in DOMAIN upload_queue :
                      /\ upload_queue[i].status = "QUEUED"
                      /\ \/ upload_queue[i].next_attempt_after = NULL
                         \/ upload_queue[i].next_attempt_after <= now}
            Ahead(a, b) ==
                \/ upload_queue[a].priority_score > upload_queue[b].priority_score
                \/ /\ upload_queue[a].priority_score = upload_queue[b].priority_score
                   /\ upload_queue[a].scraped_date < upload_queue[b].scraped_date
        IN  /\ Len(res) <= last.limit
            /\ Cardinality(got) = Len(res)
            /\ got \subseteq due
            /\ \A k, l \in 1..Len(res) : k < l => ~Ahead(res[l], res[k])
            /\ \A j \in due \ got : \A k \in 1..Len(res) : ~Ahead(j, res[k])

\* C8 witness: with limit 1 the one job returned outranks a due job that was
\* left out.
C8_Witness ==
    /\ last.op = "get_next_jobs" /\ last.limit = 1 /\ Len(last.ret) = 1
    /\ \E j \in DOMAIN upload_queue :
          /\ j # last.ret[1]
          /\ IsDue(upload_queue[j], now)
          /\ upload_queue[j].retry_count = 1
          /\ upload_queue[last.ret[1]].priority_score > upload_queue[j].priority_score

(***************************************************************************)
(* Crash recovery: jobs of every status and age when reset_stale_jobs runs *)
(* (reconcile passes STALE_IN_PROGRESS_HOURS).                             *)
(***************************************************************************)
StaleWindow == STALE_IN_PROGRESS_HOURS * SECONDS_PER_HOUR

StaleNext ==
    \/ \E c \in CandidatesA : Call_enqueue(c)
    \/ \E id \in 1..MaxJobs : Call_mark_in_progress(id)
    \/ \E id \in 1..MaxJobs : Call_mark_completed(id)
    \/ \E id \in 1..MaxJobs :
          /\ id \in DOMAIN upload_queue /\ upload_queue[id].retry_count < 1
          /\ Call_mark_failed(id, ErrTransient, MAX_UPLOAD_ATTEMPTS)
    \/ Call_reset_stale_jobs(STALE_IN_PROGRESS_HOURS)
    \/ \E d \in {1, StaleWindow} : Tick(d)

SpecStale == Init /\ [][StaleNext]_vars

\* C9: reset_stale_jobs(hours) turns exactly the jobs that are IN_PROGRESS and
\* were last updated before now - hours into QUEUED, keeping their retry_count,
\* next_attempt_after and error_msg (and every column but status/updated_at);
\* it returns their number and leaves every other job as it was.
C9_ResetStale ==
    [][ Call_reset_stale_jobs(STALE_IN_PROGRESS_HOURS) =>
          LET stale == {i \in DOMAIN upload_queue :
                          /\ upload_queue[i].status = "IN_PROGRESS"
                          /\ upload_queue[i].updated_at
                                < now - STALE_IN_PROGRESS_HOURS * SECONDS_PER_HOUR}
          IN  /\ DOMAIN upload_queue' = DOMAIN upload_queue
              /\ last'.ret = Cardinality(stale)
              /\ \A i \in stale :
                    upload_queue'[i] = [upload_queue[i] EXCEPT !.status = "QUEUED",
                                                               !.updated_at = now]
              /\ \A i \in (DOMAIN upload_queue) \ stale :
                    upload_queue'[i] = upload_queue[i]
      ]_vars

\* C9 witness: a reset moved one job, which had failed once before, to QUEUED
\* and left a younger IN_PROGRESS job alone.
C9_Witness ==
    /\ last.op = "reset_stale_jobs" /\ last.ret = 1
    /\ \E i, j \in DOMAIN upload_queue :
          /\ upload_queue[i].status = "QUEUED"
          /\ upload_queue[i].updated_at = now
          /\ upload_queue[i].retry_count = 1
          /\ upload_queue[i].next_attempt_after # NULL
          /\ upload_queue[j].status = "IN_PROGRESS"
          /\ upload_queue[j].updated_at < now

(***************************************************************************)
(* The spreadsheet (sheet_manager.py).  A row is known by its tab and its  *)
(* row_id; the rows keep their place, so sheet_row and row_id name the     *)
(* same row.  Of a row the columns the scheduler reads or writes are kept: *)
(* status, upload_attempts, content_hash, source_url, dest_mapping_tags,   *)
(* priority_score, scraped_date_utc, manual_flag, the schedule (the time   *)
(* that scheduled_date and scheduled_time or the schedule note give, NULL  *)
(* without one) and the audit notes the poll appends to the notes column.  *)
(***************************************************************************)
SheetRow(tab, rid, prio, hash, dest) ==
    [tab |-> tab, row_id |-> rid, status |-> "READY_TO_UPLOAD",
     upload_attempts |-> 0, content_hash |-> hash, source_url |-> "url",
     dest_mapping_tags |-> dest, priority_score |-> prio, scraped_date |-> 1,
     manual_flag |-> "", scheduled_at |-> NULL, notes |-> {}]

RowIndex(sh, tab, rid) ==
    CHOOSE i \in DOMAIN sh : sh[i].tab = tab /\ sh[i].row_id = rid

\* the row of the sheet a job was made from
JobRow(sh, job) == RowIndex(sh, job.source_tab, job.row_id)

\* update_row_status without expected_status: the status cell is overwritten
update_row_status(sh, i, status) == [sh EXCEPT ![i].status = status]

\* the optimistic lock of update_row_status: an empty cell passes
StatusConflict(sh, i, expected_status) ==
    sh[i].status # "" /\ sh[i].status # expected_status

mark_uploaded(sh, i) ==
    [sh EXCEPT ![i].status = "UPLOADED", ![i].upload_attempts = @ + 1]

mark_upload_error(sh, i, retryable) ==
    LET attempts == sh[i].upload_attempts + 1 IN
    [sh EXCEPT ![i].status = IF retryable /\ attempts < MAX_UPLOAD_ATTEMPTS
                             THEN "READY_TO_UPLOAD" ELSE "ERROR",
               ![i].upload_attempts = attempts]

\* The 30-day window of the lookup is longer than any run of the model, so
\* every UPLOADED row is inside it.
get_uploaded_hashes_for_dest(sh, dest) ==
    { sh[i].content_hash : i \in { j \in DOMAIN sh :
          /\ sh[j].status = "UPLOADED"
          /\ sh[j].dest_mapping_tags = dest
          /\ sh[j].content_hash # "" } }

(***************************************************************************)
(* poll_and_enqueue: every READY_TO_UPLOAD row, in sheet order, is offered *)
(* to the store unless it is flagged for review, its attempts are used up, *)
(* it is scheduled for later or its destination is at the daily cap.       *)
(***************************************************************************)
\* str.strip() on the cell values of the model
strip(s) == IF s = " " THEN "" ELSE IF s = "review " THEN "review" ELSE s

\* str.upper() on the values of the active column
upper(s) == IF s = "true" THEN "TRUE" ELSE IF s = "false" THEN "FALSE" ELSE s

\* the active rows of the destinations_mapping tab; an HttpError of the read
\* gives no mapping at all
get_destination_mappings(tab_rows, read_error) ==
    IF read_error THEN <<>>
    ELSE SelectSeq(tab_rows, LAMBDA m : upper(m.active) = "TRUE")

\* {m["source_tag"]: m["destination_account_id"] for m in mappings}: the last
\* mapping of a tag is the one kept
global_map(mappings) ==
    [tag \in {mappings[k].source_tag : k \in DOMAIN mappings} |->
        LET ks == {k \in DOMAIN mappings : mappings[k].source_tag = tag}
            k == CHOOSE x \in ks : \A y \in ks : y <= x
        IN  mappings[k].destination_account_id]

\* the destination of a candidate: its own cell, else the dynamic mapping of
\* its tab, else the static one
ResolveDest(row, gm, sm) ==
    LET own == strip(row.dest_mapping_tags)
        dyn == IF own = "" /\ row.tab \in DOMAIN gm THEN gm[row.tab] ELSE own
    IN  IF dyn = "" /\ row.tab \in DOMAIN sm THEN sm[row.tab] ELSE dyn

\* the rows the loop passes over before it looks at the destination
Skipped(row, t) ==
    \/ strip(row.manual_flag) = "review"
    \/ row.upload_attempts >= MAX_UPLOAD_ATTEMPTS
    \/ row.scheduled_at # NULL /\ row.scheduled_at > t

\* append_audit_note(tab, row, "scheduler: quota_reached_today for <dest>")
append_audit_note(sh, i, note) == [sh EXCEPT ![i].notes = @ \cup {note}]

\* The loop from row i on, n rows added so far.  note_error: the write of an
\* audit note raises HttpError, which ends the poll where it stands.
RECURSIVE PollFrom(_, _, _, _, _, _, _, _, _, _)
PollFrom(q, nid, sh, du, t, gm, sm, note_error, n, i) ==
    IF i > Len(sh)
    THEN [q |-> q, nid |-> nid, sh |-> sh, enqueued |-> n, raised |-> FALSE]
    ELSE LET row == sh[i]
             dest == ResolveDest(row, gm, sm)
             c == [source_tab |-> row.tab, row_id |-> row.row_id,
                   priority_score |-> row.priority_score,
                   scraped_date |-> row.scraped_date, dest_account_id |-> dest]
             q2 == InsertOrIgnore(q, nid, c, t)
             added == q2 # q
         IN  IF row.status # "READY_TO_UPLOAD" \/ Skipped(row, t)
             THEN PollFrom(q, nid, sh, du, t, gm, sm, note_error, n, i + 1)
             ELSE IF dest # "" /\ get_uploads_today(du, dest, t) >= UPLOADS_PER_DAY_PER_DEST
             THEN IF note_error
                  THEN [q |-> q, nid |-> nid, sh |-> sh, enqueued |-> n, raised |-> TRUE]
                  ELSE PollFrom(q, nid, append_audit_note(sh, i, "quota_reached_today"),
                                du, t, gm, sm, note_error, n, i + 1)
             ELSE PollFrom(q2, IF added THEN nid + 1 ELSE nid, sh, du, t, gm, sm,
                           note_error, IF added THEN n + 1 ELSE n, i + 1)

AllIdle == \A w \in WorkerIds : workers[w].pc = "idle"

\* whether a Sheets API write raises HttpError
FaultChoices == IF config.sheet_faults THEN BOOLEAN ELSE {FALSE}

\* what a poll that starts now gives, with the faults of its two Sheets calls
PollNow(read_error, note_error) ==
    PollFrom(upload_queue, next_id, sheet, daily_uploads, now,
             global_map(get_destination_mappings(config.mappings, read_error)),
             config.static_mappings, note_error, 0, 1)

\* the call poll_and_enqueue(), whoever makes it
do_poll_and_enqueue(r) ==
    /\ AllIdle
    /\ upload_queue' = r.q
    /\ next_id' = r.nid
    /\ sheet' = r.sh
    /\ UNCHANGED <<now, nticks>>
    /\ UNCHANGED <<daily_uploads, last_upload_time, youtube_quota,
                   idempotency_keys, workers, uploads, config, destination_cleanup_jobs, botVars>>

poll_and_enqueue ==
    /\ \E e, f \in FaultChoices : do_poll_and_enqueue(PollNow(e, f))
    /\ UNCHANGED <<main, last>>

(***************************************************************************)
(* run_workers: the due jobs, at most MAX_CONCURRENT_WORKERS, go to the    *)
(* pool; the call returns when every thread has returned.                  *)
(***************************************************************************)
do_run_workers_submit ==
    /\ AllIdle
    /\ \E jobs \in get_next_jobs(upload_queue, MAX_CONCURRENT_WORKERS, now) :
          /\ Len(jobs) > 0
          /\ workers' = [w \in WorkerIds |->
                IF w <= Len(jobs) THEN [IdleWorker EXCEPT !.pc = "start", !.id = jobs[w]]
                ELSE IdleWorker]
    /\ UNCHANGED storeVars
    /\ UNCHANGED <<sheet, uploads, config, destination_cleanup_jobs, botVars>>
    /\ UNCHANGED auxVars

run_workers_submit == do_run_workers_submit /\ UNCHANGED main

\* the try around the whole as_completed loop: the first exception ends the
\* loop, the other results are never collected and nothing is written
run_workers_except_Abort(w) ==
    /\ workers[w].pc = "raised"
    /\ workers' = [v \in WorkerIds |-> IdleWorker]
    /\ UNCHANGED storeVars
    /\ UNCHANGED <<sheet, uploads, envVars>>
    /\ UNCHANGED auxVars

\* the except branch of the as_completed loop: queue_db.mark_failed(job["id"], str(e))
run_workers_except(w) ==
    /\ workers[w].pc = "raised"
    /\ upload_queue' = mark_failed(upload_queue, workers[w].id, "HttpError",
                                   MAX_UPLOAD_ATTEMPTS, now)
    /\ workers' = [workers EXCEPT ![w].pc = "done"]
    /\ UNCHANGED <<next_id, now, nticks, last, sheet, uploads, envVars>>
    /\ UNCHANGED auxVars

do_run_workers_return ==
    /\ \E w \in WorkerIds : workers[w].pc # "idle"
    /\ \A w \in WorkerIds : workers[w].pc \in {"idle", "done"}
    /\ workers' = [w \in WorkerIds |-> IdleWorker]
    /\ UNCHANGED storeVars
    /\ UNCHANGED <<sheet, uploads, config, destination_cleanup_jobs, botVars>>
    /\ UNCHANGED auxVars

run_workers_return == do_run_workers_return /\ UNCHANGED main

(***************************************************************************)
(* process_upload_job, one action per step.  A step is the store or sheet  *)
(* calls the code makes between two points where another thread can run.   *)
(* The job dict a thread holds is the row get_next_jobs read; the columns  *)
(* it uses (id, source_tab, row_id, dest_account_id) are never rewritten,  *)
(* so they are read from the table.  Every destination account is a        *)
(* YouTube account.                                                        *)
(***************************************************************************)
Job(w) == upload_queue[workers[w].id]

Row(w) == JobRow(sheet, Job(w))

\* idem_key of the job a thread holds
JobKey(w) == IdemKey(sheet[Row(w)].content_hash, Job(w).dest_account_id)

Goto(w, pc) == [workers EXCEPT ![w].pc = pc]

\* return result
Return(w, res) == [workers EXCEPT ![w] = [IdleWorker EXCEPT !.pc = "done", !.id = workers[w].id, !.res = res]]

\* the exception leaves process_upload_job
Raise(w) == [workers EXCEPT ![w] = [IdleWorker EXCEPT !.pc = "raised", !.id = workers[w].id, !.res = "raised"]]


\* queue_db.mark_failed(...) ; sheet_manager.mark_upload_error(...) ; return
FailJob(w, error, max_retries, retryable, fault) ==
    /\ upload_queue' = mark_failed(upload_queue, workers[w].id, error, max_retries, now)
    /\ IF fault
       THEN sheet' = sheet /\ workers' = Raise(w)
       ELSE sheet' = mark_upload_error(sheet, Row(w), retryable) /\ workers' = Return(w, "error")

\* Step 1, first half: queue_db.mark_in_progress(queue_id)
pj_mark_in_progress(w) ==
    /\ workers[w].pc = "start"
    /\ upload_queue' = mark_in_progress(upload_queue, workers[w].id, now)
    /\ workers' = Goto(w, "lock")
    /\ UNCHANGED <<next_id, now, nticks, last, sheet, uploads, envVars>>
    /\ UNCHANGED auxVars

\* Step 1, second half: update_row_status(..., "IN_PROGRESS",
\* expected_status="READY_TO_UPLOAD").  read_error: the read of the status cell
\* raised HttpError, and the write goes ahead unchecked.
pj_lock_row(w, read_error) ==
    /\ workers[w].pc = "lock"
    /\ IF ~read_error /\ StatusConflict(sheet, Row(w), "READY_TO_UPLOAD")
       THEN /\ upload_queue' = mark_failed(upload_queue, workers[w].id, ErrConflict, 0, now)
            /\ sheet' = sheet
            /\ workers' = Return(w, "error")
       ELSE /\ sheet' = update_row_status(sheet, Row(w), "IN_PROGRESS")
            /\ upload_queue' = upload_queue
            /\ workers' = Goto(w, "read")
    /\ UNCHANGED <<next_id, now, nticks, last, uploads, envVars>>
    /\ UNCHANGED auxVars

\* Step 2: read_row and the precondition checks
pj_read_row(w, fault) ==
    /\ workers[w].pc = "read"
    /\ LET row == sheet[Row(w)] IN
       IF row.source_url = ""
       THEN FailJob(w, "no_source_url", MAX_UPLOAD_ATTEMPTS, FALSE, fault)
       ELSE IF Job(w).dest_account_id = ""
       THEN FailJob(w, "no_destination_mapped", MAX_UPLOAD_ATTEMPTS, FALSE, fault)
       ELSE IF row.upload_attempts >= MAX_UPLOAD_ATTEMPTS
       THEN /\ upload_queue' = mark_failed(upload_queue, workers[w].id,
                                           "max_attempts_reached", 0, now)
            /\ IF fault
               THEN sheet' = sheet /\ workers' = Raise(w)
               ELSE /\ sheet' = update_row_status(sheet, Row(w), "ERROR")
                    /\ workers' = Return(w, "error")
       ELSE /\ workers' = Goto(w, "idem")
            /\ UNCHANGED <<upload_queue, sheet>>
    /\ UNCHANGED <<next_id, now, nticks, last, uploads, envVars>>
    /\ UNCHANGED auxVars

\* S1: the idempotency check
pj_idempotency_check(w, fault) ==
    /\ workers[w].pc = "idem"
    /\ IF sheet[Row(w)].content_hash # "" /\ check_idempotency(idempotency_keys, JobKey(w))
       THEN /\ upload_queue' = mark_completed(upload_queue, workers[w].id, now)
            /\ IF fault
               THEN sheet' = sheet /\ workers' = Raise(w)
               ELSE /\ sheet' = update_row_status(sheet, Row(w), "SKIPPED_DUPLICATE")
                    /\ workers' = Return(w, "skipped_idempotency")
       ELSE /\ workers' = Goto(w, "dup")
            /\ UNCHANGED <<upload_queue, sheet>>
    /\ UNCHANGED <<next_id, now, nticks, last, uploads, envVars>>
    /\ UNCHANGED auxVars

\* Step 3: the same-destination duplicate check against the sheet.  An
\* exception inside it is logged and the job goes on.
pj_duplicate_check(w, fault) ==
    /\ workers[w].pc = "dup"
    /\ LET h == sheet[Row(w)].content_hash IN
       IF h # "" /\ h \in get_uploaded_hashes_for_dest(sheet, Job(w).dest_account_id)
       THEN /\ upload_queue' = mark_failed(upload_queue, workers[w].id,
                                           "duplicate_for_destination", MAX_UPLOAD_ATTEMPTS, now)
            /\ IF fault
               THEN sheet' = sheet /\ workers' = Goto(w, "spacing")
               ELSE /\ sheet' = update_row_status(sheet, Row(w), "SKIPPED_DUPLICATE")
                    /\ workers' = Return(w, "error")
       ELSE /\ workers' = Goto(w, "spacing")
            /\ UNCHANGED <<upload_queue, sheet>>
    /\ UNCHANGED <<next_id, now, nticks, last, uploads, envVars>>
    /\ UNCHANGED auxVars

\* Step 4: spacing.  The thread sleeps min(wait, 300) seconds and goes on.
pj_spacing(w) ==
    /\ workers[w].pc = "spacing"
    /\ LET last_upload == get_last_upload_time(last_upload_time, Job(w).dest_account_id)
           elapsed == now - last_upload
       IN  now' = IF last_upload # NULL /\ elapsed < UPLOAD_SPACING_SECONDS
                  THEN now + Min2(UPLOAD_SPACING_SECONDS - elapsed, SPACING_SLEEP_CAP)
                  ELSE now
    /\ workers' = Goto(w, "slot")
    /\ UNCHANGED <<upload_queue, next_id, nticks, last, sheet, uploads, envVars>>
    /\ UNCHANGED auxVars

\* Step 4b: slots and cap
pj_slot_cap(w) ==
    /\ workers[w].pc = "slot"
    /\ LET uploads_today == get_uploads_today(daily_uploads, Job(w).dest_account_id, now)
           slot_time == next_slot_time(uploads_today, now)
       IN  IF now < slot_time
           THEN /\ upload_queue' = requeue_at(upload_queue, workers[w].id, slot_time, now)
                /\ workers' = Return(w, "deferred_slot_wait")
           ELSE IF uploads_today >= UPLOADS_PER_DAY_PER_DEST
           THEN /\ upload_queue' = requeue_at(upload_queue, workers[w].id, slot_time, now)
                /\ workers' = Return(w, "deferred_slot_cap")
           ELSE /\ upload_queue' = upload_queue
                /\ workers' = Goto(w, "media")
    /\ UNCHANGED <<next_id, now, nticks, last, sheet, uploads, envVars>>
    /\ UNCHANGED auxVars

\* What download_video, transform_video, validate_for_upload and get_uploader
\* can come back with.  ffmpeg_failed is handled as download_failed is, and a
\* missing uploader as validation_failed is (mark_failed with three retries,
\* the sheet row not retryable).
MediaOutcomes == {"ok", "download_failed", "validation_failed"}

\* Steps 5 to 8: download, transform, validate, pick the uploader.  None of
\* them reads or writes the store or the sheet unless it fails.
pj_media(w, outcome, fault) ==
    /\ workers[w].pc = "media"
    /\ IF outcome = "ok"
       THEN /\ workers' = Goto(w, "quota")
            /\ UNCHANGED <<upload_queue, sheet>>
       ELSE FailJob(w, outcome, MAX_UPLOAD_ATTEMPTS, outcome = "download_failed", fault)
    /\ UNCHANGED <<next_id, now, nticks, last, uploads, envVars>>
    /\ UNCHANGED auxVars

\* S4: the quota guard
pj_quota_guard(w, fault) ==
    /\ workers[w].pc = "quota"
    /\ LET project == get_cheapest_project(youtube_quota, config.projects,
                                           config.quota_limit, now)
       IN  IF project = NONE_PROJECT
           THEN FailJob(w, "youtube_quota_exhausted", 0, TRUE, fault)
           ELSE /\ workers' = [workers EXCEPT ![w].pc = "upload", ![w].project = project]
                /\ UNCHANGED <<upload_queue, sheet>>
    /\ UNCHANGED <<next_id, now, nticks, last, uploads, envVars>>
    /\ UNCHANGED auxVars

\* what upload_adapter.upload can come back with: success, a retryable error,
\* a non-retryable one
UploadOutcomes == {"success", "retryable", "rejected"}

CountOf(f, k) == IF k \in DOMAIN f THEN f[k] ELSE 0

Counted(f, k) == [x \in (DOMAIN f) \cup {k} |-> IF x = k THEN CountOf(f, k) + 1 ELSE f[x]]

\* Step 8: the upload call, and Step 9 when it failed
pj_upload(w, outcome, fault) ==
    /\ workers[w].pc = "upload"
    /\ IF outcome = "success"
       THEN /\ uploads' = Counted(uploads, JobKey(w))
            /\ workers' = Goto(w, "uploaded")
            /\ UNCHANGED <<upload_queue, sheet>>
       ELSE /\ uploads' = uploads
            /\ IF outcome = "rejected"
               THEN FailJob(w, "upload_rejected", 0, FALSE, fault)
               ELSE FailJob(w, "upload_error", MAX_UPLOAD_ATTEMPTS, TRUE, fault)
    /\ UNCHANGED <<next_id, now, nticks, last, envVars>>
    /\ UNCHANGED auxVars

\* Step 9 after a successful upload: five writes, each a transaction of its own
pj_mark_completed(w) ==
    /\ workers[w].pc = "uploaded"
    /\ upload_queue' = mark_completed(upload_queue, workers[w].id, now)
    /\ workers' = Goto(w, "completed")
    /\ UNCHANGED <<next_id, now, nticks, last, sheet, uploads, envVars>>
    /\ UNCHANGED auxVars

pj_record_upload(w) ==
    /\ workers[w].pc = "completed"
    /\ daily_uploads' = record_upload(daily_uploads, Job(w).dest_account_id, Job(w).row_id, now)
    /\ last_upload_time' = record_last_upload(last_upload_time, Job(w).dest_account_id, now)
    /\ workers' = Goto(w, "recorded")
    /\ UNCHANGED storeVars
    /\ UNCHANGED <<sheet, uploads, envVars, youtube_quota, idempotency_keys>>

pj_record_idempotency(w) ==
    /\ workers[w].pc = "recorded"
    /\ idempotency_keys' = record_idempotency(idempotency_keys, JobKey(w), workers[w].id)
    /\ workers' = Goto(w, "keyed")
    /\ UNCHANGED storeVars
    /\ UNCHANGED <<sheet, uploads, envVars, daily_uploads, last_upload_time, youtube_quota>>

pj_record_quota_usage(w) ==
    /\ workers[w].pc = "keyed"
    /\ youtube_quota' = record_quota_usage(youtube_quota,
            IF workers[w].project # NONE_PROJECT THEN workers[w].project ELSE DEFAULT_PROJECT,
            YT_QUOTA_UNITS_PER_UPLOAD, now)
    /\ workers' = Goto(w, "metered")
    /\ UNCHANGED storeVars
    /\ UNCHANGED <<sheet, uploads, envVars, daily_uploads, last_upload_time, idempotency_keys>>

pj_mark_uploaded(w, fault) ==
    /\ workers[w].pc = "metered"
    /\ IF fault
       THEN sheet' = sheet /\ workers' = Raise(w)
       ELSE sheet' = mark_uploaded(sheet, Row(w)) /\ workers' = Return(w, "uploaded")
    /\ UNCHANGED storeVars
    /\ UNCHANGED <<uploads, envVars>>
    /\ UNCHANGED auxVars

(***************************************************************************)
(* The clock between two cycles of the main loop.  The loop wakes every    *)
(* POLL_INTERVAL_SECONDS, so it sees every time at which something changes *)
(* for it: a slot of today or tomorrow that the cap lets the code use, the *)
(* next_attempt_after of a waiting job, the next midnight, local or UTC,   *)
(* where the date changes.  The clock moves on to the next of these times. *)
(***************************************************************************)
NextLocalMidnight(t) == (LocalDate(t) + 1) * SECONDS_PER_DAY - TZ_OFFSET_SECONDS

NextUtcMidnight(t) == (UtcDate(t) + 1) * SECONDS_PER_DAY

UsedSlots(day_local) ==
    { slot_times_for_day(day_local)[k] :
        k \in 1..Min2(Len(UPLOAD_SLOTS_LOCAL), UPLOADS_PER_DAY_PER_DEST) }

EventTimes ==
    UsedSlots(LocalDate(now)) \cup UsedSlots(LocalDate(now) + 1)
    \cup {NextLocalMidnight(now), NextUtcMidnight(now)}
    \cup { upload_queue[i].next_attempt_after :
             i \in { j \in DOMAIN upload_queue : upload_queue[j].status = "QUEUED" } }

do_Sleep ==
    /\ AllIdle
    /\ nticks < MaxSleeps
    /\ \E t \in EventTimes :
          /\ t > now
          /\ \A u \in EventTimes : u > now => t <= u
          /\ now' = t
    /\ nticks' = nticks + 1
    /\ UNCHANGED <<upload_queue, next_id, last>>
    /\ UNCHANGED <<sheet, daily_uploads, last_upload_time, youtube_quota,
                   idempotency_keys, workers, uploads, config, destination_cleanup_jobs, botVars>>

Sleep == do_Sleep /\ UNCHANGED main

PipelineNext ==
    \/ poll_and_enqueue
    \/ run_workers_submit
    \/ run_workers_return
    \/ \E w \in WorkerIds : pj_mark_in_progress(w)
    \/ \E w \in WorkerIds, e \in FaultChoices : pj_lock_row(w, e)
    \/ \E w \in WorkerIds, f \in FaultChoices : pj_read_row(w, f)
    \/ \E w \in WorkerIds, f \in FaultChoices : pj_idempotency_check(w, f)
    \/ \E w \in WorkerIds, f \in FaultChoices : pj_duplicate_check(w, f)
    \/ \E w \in WorkerIds : pj_spacing(w)
    \/ \E w \in WorkerIds : pj_slot_cap(w)
    \/ \E w \in WorkerIds, o \in MediaOutcomes, f \in FaultChoices : pj_media(w, o, f)
    \/ \E w \in WorkerIds, f \in FaultChoices : pj_quota_guard(w, f)
    \/ \E w \in WorkerIds, o \in UploadOutcomes, f \in FaultChoices : pj_upload(w, o, f)
    \/ \E w \in WorkerIds : pj_mark_completed(w)
    \/ \E w \in WorkerIds : pj_record_upload(w)
    \/ \E w \in WorkerIds : pj_record_idempotency(w)
    \/ \E w \in WorkerIds : pj_record_quota_usage(w)
    \/ \E w \in WorkerIds, f \in FaultChoices : pj_mark_uploaded(w, f)
    \/ Sleep

\* Three rows for one destination, different content.
RowsCap ==
    << SheetRow("tabA", 1, 80, "h1", "yt_1"),
       SheetRow("tabA", 2, 50, "h2", "yt_1"),
       SheetRow("tabA", 3, 20, "h3", "yt_1") >>

SpecCap == InitWith(RowsCap, DefaultConfig) /\ [][PipelineNext]_vars

\* the daily-upload records of a destination on a date
UploadsOn(dest, date) == {r \in daily_uploads : r[1] = dest /\ r[2] = date}

\* C3: for every destination and date, the number of daily-upload records
\* never exceeds UPLOADS_PER_DAY_PER_DEST.
C3_DailyCap ==
    \A r \in daily_uploads :
        Cardinality(UploadsOn(r[1], r[2])) <= UPLOADS_PER_DAY_PER_DEST

\* the first slot of the local day after the one t falls in
NextDayFirstSlot(t) == slot_times_for_day(LocalDate(t) + 1)[1]

\* C10: a job that reaches slot/cap enforcement while its destination has
\* uploads_today equal to the daily cap is requeued at the next day's first
\* slot: the run ends there (no download, no upload), the job is QUEUED, its
\* retry_count is unchanged and next_attempt_after is that slot time.
C10_CapDefers ==
    [][\A w \in WorkerIds :
          ( /\ workers[w].pc = "slot"
            /\ workers'[w].pc # "slot"
            /\ get_uploads_today(daily_uploads, Job(w).dest_account_id, now)
                 = UPLOADS_PER_DAY_PER_DEST )
          => /\ workers'[w].pc = "done"
             /\ workers'[w].res \in {"deferred_slot_wait", "deferred_slot_cap"}
             /\ uploads' = uploads
             /\ upload_queue'[workers[w].id].status = "QUEUED"
             /\ upload_queue'[workers[w].id].retry_count = Job(w).retry_count
             /\ upload_queue'[workers[w].id].next_attempt_after = NextDayFirstSlot(now)
             /\ NextDayFirstSlot(now) > now]_vars

\* a run has just been deferred with the destination at its cap
C10_Witness ==
    \E w \in WorkerIds :
        /\ workers[w].pc = "done"
        /\ workers[w].res = "deferred_slot_wait"
        /\ get_uploads_today(daily_uploads, Job(w).dest_account_id, now)
             = UPLOADS_PER_DAY_PER_DEST
        /\ Job(w).status = "QUEUED"
        /\ Job(w).next_attempt_after = NextDayFirstSlot(now)

(***************************************************************************)
(* Two rows with the same content for the same destination.                *)
(***************************************************************************)
RowsDup ==
    << SheetRow("tabA", 1, 80, "h1", "yt_1"),
       SheetRow("tabA", 2, 50, "h1", "yt_1") >>

SpecDup == InitWith(RowsDup, DefaultConfig) /\ [][PipelineNext]_vars

\* C2: the upload adapter reports success at most once for each
\* (content fingerprint, destination) pair.
C2_NoDuplicateUpload ==
    \A k \in DOMAIN uploads : uploads[k] <= 1

(***************************************************************************)
(* Two rows whose content_hash cell is empty, for the same destination.    *)
(***************************************************************************)
RowsNoHash ==
    << SheetRow("tabA", 1, 80, "", "yt_1"),
       SheetRow("tabA", 2, 50, "", "yt_1") >>

SpecNoHash == InitWith(RowsNoHash, DefaultConfig) /\ [][PipelineNext]_vars

\* C5: once record_idempotency has stored a key, a run for a job with that
\* key that comes to the idempotency check marks the job COMPLETED and returns
\* without calling the upload adapter.
C5_RecordedKeySkips ==
    [][\A w \in WorkerIds :
          ( /\ workers[w].pc = "idem"
            /\ workers'[w].pc # "idem"
            /\ check_idempotency(idempotency_keys, JobKey(w)) )
          => /\ workers'[w].pc = "done"
             /\ upload_queue'[workers[w].id].status = "COMPLETED"]_vars

(***************************************************************************)
(* A small quota: YT_QUOTA_LIMIT_PER_PROJECT=2000, one upload's worth of   *)
(* budget after the safety margin; with the default pool, and with one     *)
(* configured pool.                                                        *)
(***************************************************************************)
RowsPair ==
    << SheetRow("tabA", 1, 80, "h1", "yt_1"),
       SheetRow("tabA", 2, 50, "h2", "yt_1") >>

QuotaConfigs ==
    { [quota_limit |-> 2000, projects |-> <<>>, sheet_faults |-> FALSE,
       mappings |-> <<>>, static_mappings |-> NoMapping],
      [quota_limit |-> 2000, projects |-> <<"p1">>, sheet_faults |-> FALSE,
       mappings |-> <<>>, static_mappings |-> NoMapping] }

SpecQuota == (\E cfg \in QuotaConfigs : InitWith(RowsPair, cfg)) /\ [][PipelineNext]_vars

\* C4: for every quota pool and date, units_used never exceeds
\* floor(daily limit x safety margin).
C4_NoQuotaOverrun ==
    \A k \in DOMAIN youtube_quota :
        youtube_quota[k] <= QuotaBudget(config.quota_limit)

(***************************************************************************)
(* The Sheets API failing: a write of the sheet may raise HttpError, which *)
(* leaves process_upload_job and is caught by run_workers.                 *)
(***************************************************************************)
RowsOne == << SheetRow("tabA", 1, 80, "h1", "yt_1") >>

FaultyConfig == [quota_limit |-> 10000, projects |-> <<>>, sheet_faults |-> TRUE,
       mappings |-> <<>>, static_mappings |-> NoMapping]

FaultyNext ==
    \/ PipelineNext
    \/ \E w \in WorkerIds : run_workers_except(w)

SpecFaulty == InitWith(RowsOne, FaultyConfig) /\ [][FaultyNext]_vars

\* C7: a job that is FAILED with its retries used up is never put back to
\* QUEUED or IN_PROGRESS.
C7_FailedIsTerminal ==
    [][\A id \in DOMAIN upload_queue :
          upload_queue[id].status = "FAILED" => upload_queue'[id].status = "FAILED"]_vars

(***************************************************************************)
(* The quota table called directly, under each pool configuration: no pool *)
(* list (the 'default' pool), one pool, two pools.  A call is one SQLite   *)
(* transaction, so concurrent callers are any order of the calls.          *)
(***************************************************************************)
PoolConfigs ==
    { [quota_limit |-> 4000, projects |-> <<>>, sheet_faults |-> FALSE,
       mappings |-> <<>>, static_mappings |-> NoMapping],
      [quota_limit |-> 4000, projects |-> <<"A">>, sheet_faults |-> FALSE,
       mappings |-> <<>>, static_mappings |-> NoMapping],
      [quota_limit |-> 4000, projects |-> <<"A", "B">>, sheet_faults |-> FALSE,
       mappings |-> <<>>, static_mappings |-> NoMapping] }

\* the pools a configuration meters
Pools(cfg) ==
    IF Len(cfg.projects) = 0 THEN {DEFAULT_PROJECT}
    ELSE {cfg.projects[i] : i \in 1..Len(cfg.projects)}

\* units arguments: the default 0 (one upload's cost), half an upload, one upload
UnitArgs == {0, 800, YT_QUOTA_UNITS_PER_UPLOAD}

RECURSIVE TotalUnits(_, _)
TotalUnits(yq, keys) ==
    IF keys = {} THEN 0
    ELSE LET k == CHOOSE x \in keys : TRUE
         IN  yq[k] + TotalUnits(yq, keys \ {k})

Call_record_quota_usage(project_id, units) ==
    /\ TotalUnits(youtube_quota, DOMAIN youtube_quota) < MaxCharges * YT_QUOTA_UNITS_PER_UPLOAD
    /\ youtube_quota' = record_quota_usage(youtube_quota, project_id, units, now)
    /\ last' = [op |-> "record_quota_usage", project_id |-> project_id, units |-> units]
    /\ UNCHANGED <<upload_queue, next_id, now, nticks>>
    /\ UNCHANGED <<sheet, daily_uploads, last_upload_time, idempotency_keys,
                   workers, uploads, envVars>>

Call_get_quota_remaining(project_id) ==
    /\ last' = [op |-> "get_quota_remaining", project_id |-> project_id,
                ret |-> get_quota_remaining(youtube_quota, project_id,
                                            config.quota_limit, now)]
    /\ UNCHANGED <<upload_queue, next_id, now, nticks>>
    /\ UNCHANGED pipeVars

Call_get_cheapest_project ==
    /\ last' = [op |-> "get_cheapest_project",
                ret |-> get_cheapest_project(youtube_quota, config.projects,
                                             config.quota_limit, now)]
    /\ UNCHANGED <<upload_queue, next_id, now, nticks>>
    /\ UNCHANGED pipeVars

QuotaStoreNext ==
    \/ \E p \in Pools(config), u \in UnitArgs : Call_record_quota_usage(p, u)
    \/ \E p \in Pools(config) : Call_get_quota_remaining(p)
    \/ Call_get_cheapest_project
    \/ Tick(SECONDS_PER_DAY)

SpecQuotaStore ==
    (\E cfg \in PoolConfigs : InitWith(<<>>, cfg)) /\ [][QuotaStoreNext]_vars

\* remaining budget of a pool today, from the table
RemainingToday(p) ==
    LET used == IF <<p, now \div SECONDS_PER_DAY>> \in DOMAIN youtube_quota
                THEN youtube_quota[<<p, now \div SECONDS_PER_DAY>>] ELSE 0
        budget == (config.quota_limit * 8) \div 10
    IN  IF budget - used > 0 THEN budget - used ELSE 0

\* C11: get_cheapest_project returns a pool whose remaining budget is maximal
\* among all pools, and none whenever the best remaining budget is below one
\* upload's unit cost, for every pool configuration and usage state.
C11_CheapestPool ==
    last.op = "get_cheapest_project" =>
        IF \A p \in Pools(config) : RemainingToday(p) < YT_QUOTA_UNITS_PER_UPLOAD
        THEN last.ret = NONE_PROJECT
        ELSE /\ last.ret \in Pools(config)
             /\ \A p \in Pools(config) : RemainingToday(last.ret) >= RemainingToday(p)

\* C12: record_quota_usage adds the units to that pool's row for the current
\* date in one upsert-increment (units <= 0 stands for one upload's cost), every
\* other row is untouched, so the row holds the sum of all units consumed in any
\* order of calls; the remaining budget is max(0, floor(limit * margin) - used),
\* and a charge lowers it by exactly the units while that much budget is left.
C12_ConsumeAdds ==
    [][youtube_quota' # youtube_quota =>
         /\ last'.op = "record_quota_usage"
         /\ LET p == last'.project_id
                k == <<p, now \div SECONDS_PER_DAY>>
                u == IF last'.units <= 0 THEN YT_QUOTA_UNITS_PER_UPLOAD ELSE last'.units
                before == IF k \in DOMAIN youtube_quota THEN youtube_quota[k] ELSE 0
                budget == (config.quota_limit * 8) \div 10
                rem == get_quota_remaining(youtube_quota, p, config.quota_limit, now)
                rem2 == get_quota_remaining(youtube_quota', p, config.quota_limit, now)
            IN  /\ DOMAIN youtube_quota' = (DOMAIN youtube_quota) \cup {k}
                /\ youtube_quota'[k] = before + u
                /\ \A x \in DOMAIN youtube_quota : x # k => youtube_quota'[x] = youtube_quota[x]
                /\ rem2 = (IF budget - (before + u) > 0 THEN budget - (before + u) ELSE 0)
                /\ rem >= u => rem2 = rem - u
    ]_vars

\* a second charge has landed on a row that already held units
C12_Witness ==
    /\ last.op = "record_quota_usage"
    /\ last.units = YT_QUOTA_UNITS_PER_UPLOAD
    /\ <<last.project_id, now \div SECONDS_PER_DAY>> \in DOMAIN youtube_quota
    /\ youtube_quota[<<last.project_id, now \div SECONDS_PER_DAY>>] = 2400

(***************************************************************************)
(* Table destination_cleanup_jobs.  Rows are never deleted, so the table   *)
(* is the sequence of its rows and a row's id is its position.             *)
(***************************************************************************)
ActiveCleanup(row) == row.status \in {"QUEUED", "IN_PROGRESS"}

\* the partial unique index without its WHERE clause's effect: nothing is checked
idx_cleanup_active_dest_Dropped(cj) == TRUE

\* CREATE UNIQUE INDEX idx_cleanup_active_dest ON destination_cleanup_jobs(dest_account_id)
\*   WHERE status IN ('QUEUED', 'IN_PROGRESS')
idx_cleanup_active_dest(cj) ==
    \A i, j \in DOMAIN cj :
        (i # j /\ ActiveCleanup(cj[i]) /\ ActiveCleanup(cj[j]))
            => cj[i].dest_account_id # cj[j].dest_account_id

\* an UPDATE of one row; sqlite3.IntegrityError leaves the table as it was
UpdateCleanup(cj, job_id, row) ==
    LET new == [cj EXCEPT ![job_id] = row]
    IN  IF idx_cleanup_active_dest(new) THEN new ELSE cj

UpdateCleanupRaises(cj, job_id, row) ==
    ~idx_cleanup_active_dest([cj EXCEPT ![job_id] = row])

NewCleanupRow(dest_account_id, remove_account_after_cleanup, t) ==
    [dest_account_id |-> dest_account_id, status |-> "QUEUED", attempt_count |-> 0,
     next_attempt_after |-> NULL, last_error |-> NO_ERROR,
     rows_cleared_total |-> 0, mappings_disabled_total |-> 0, queue_canceled_total |-> 0,
     remove_account_after_cleanup |-> remove_account_after_cleanup,
     created_at |-> t, updated_at |-> t]

\* WHERE NOT EXISTS (SELECT 1 ... WHERE dest_account_id=? AND status IN ('QUEUED','IN_PROGRESS'))
HasActiveCleanup(cj, dest_account_id) ==
    \E i \in DOMAIN cj : cj[i].dest_account_id = dest_account_id /\ ActiveCleanup(cj[i])

enqueue_destination_cleanup(cj, dest_account_id, remove_account_after_cleanup, t) ==
    IF HasActiveCleanup(cj, dest_account_id) THEN cj
    ELSE Append(cj, NewCleanupRow(dest_account_id, remove_account_after_cleanup, t))

\* conn.total_changes > 0
enqueue_destination_cleanup_ret(cj, dest_account_id) ==
    ~HasActiveCleanup(cj, dest_account_id)

mark_destination_cleanup_in_progress_row(row, t) ==
    [row EXCEPT !.status = "IN_PROGRESS",
                !.attempt_count = @ + 1,
                !.updated_at = t]

\* the reschedule with SET x_total = ? : the totals are replaced by the attempt's counts
reschedule_destination_cleanup_row_Replace(row, error_msg, next_attempt_after, counters, t) ==
    [row EXCEPT !.status = "QUEUED",
                !.next_attempt_after = next_attempt_after,
                !.last_error = error_msg,
                !.rows_cleared_total = counters.rows_cleared,
                !.mappings_disabled_total = counters.mappings_disabled,
                !.queue_canceled_total = counters.queue_canceled,
                !.updated_at = t]

reschedule_destination_cleanup_row(row, error_msg, next_attempt_after, counters, t) ==
    [row EXCEPT !.status = "QUEUED",
                !.next_attempt_after = next_attempt_after,
                !.last_error = error_msg,
                !.rows_cleared_total = @ + counters.rows_cleared,
                !.mappings_disabled_total = @ + counters.mappings_disabled,
                !.queue_canceled_total = @ + counters.queue_canceled,
                !.updated_at = t]

complete_destination_cleanup_row(row, counters, t) ==
    [row EXCEPT !.status = "COMPLETED",
                !.next_attempt_after = NULL,
                !.last_error = NO_ERROR,
                !.rows_cleared_total = @ + counters.rows_cleared,
                !.mappings_disabled_total = @ + counters.mappings_disabled,
                !.queue_canceled_total = @ + counters.queue_canceled,
                !.updated_at = t]

\* counters of one attempt: none given (all 0), 3 of 5 jobs canceled, the other 2
NoCounters == [rows_cleared |-> 0, mappings_disabled |-> 0, queue_canceled |-> 0]

CounterArgs ==
    { NoCounters,
      [rows_cleared |-> 1, mappings_disabled |-> 1, queue_canceled |-> 3],
      [rows_cleared |-> 1, mappings_disabled |-> 0, queue_canceled |-> 2] }

cleanupUnchanged ==
    /\ UNCHANGED <<upload_queue, next_id, now, nticks>>
    /\ UNCHANGED <<sheet, daily_uploads, last_upload_time, youtube_quota,
                   idempotency_keys, workers, uploads, config, main, botVars>>

Call_enqueue_destination_cleanup(dest_account_id) ==
    /\ Len(destination_cleanup_jobs) < MaxCleanupJobs
          \/ HasActiveCleanup(destination_cleanup_jobs, dest_account_id)
    /\ destination_cleanup_jobs' =
           enqueue_destination_cleanup(destination_cleanup_jobs, dest_account_id, TRUE, now)
    /\ last' = [op |-> "enqueue_destination_cleanup", dest |-> dest_account_id,
                ret |-> enqueue_destination_cleanup_ret(destination_cleanup_jobs,
                                                        dest_account_id)]
    /\ cleanupUnchanged

Call_mark_destination_cleanup_in_progress(job_id) ==
    LET row == mark_destination_cleanup_in_progress_row(destination_cleanup_jobs[job_id], now)
    IN  /\ destination_cleanup_jobs[job_id].attempt_count < MaxCleanupAttempts
        /\ destination_cleanup_jobs' = UpdateCleanup(destination_cleanup_jobs, job_id, row)
        /\ last' = [op |-> "mark_destination_cleanup_in_progress", id |-> job_id,
                    raised |-> UpdateCleanupRaises(destination_cleanup_jobs, job_id, row)]
        /\ cleanupUnchanged

\* the destination has five queued upload jobs to cancel: an attempt cancels three
\* of them or, after that, the other two (or reports no counters at all)
CountersFit(job_id, counters) ==
    \/ counters = NoCounters
    \/ <<destination_cleanup_jobs[job_id].queue_canceled_total, counters.queue_canceled>>
           \in {<<0, 3>>, <<3, 2>>}

Call_reschedule_destination_cleanup(job_id, counters) ==
    LET row == reschedule_destination_cleanup_row(destination_cleanup_jobs[job_id],
                   ErrTransient, now + SECONDS_PER_HOUR, counters, now)
    IN  /\ CountersFit(job_id, counters)
        /\ destination_cleanup_jobs' = UpdateCleanup(destination_cleanup_jobs, job_id, row)
        /\ last' = [op |-> "reschedule_destination_cleanup", id |-> job_id,
                    counters |-> counters,
                    raised |-> UpdateCleanupRaises(destination_cleanup_jobs, job_id, row)]
        /\ cleanupUnchanged

Call_complete_destination_cleanup(job_id, counters) ==
    LET row == complete_destination_cleanup_row(destination_cleanup_jobs[job_id],
                                                counters, now)
    IN  /\ CountersFit(job_id, counters)
        /\ destination_cleanup_jobs' = UpdateCleanup(destination_cleanup_jobs, job_id, row)
        /\ last' = [op |-> "complete_destination_cleanup", id |-> job_id,
                    counters |-> counters, raised |-> FALSE]
        /\ cleanupUnchanged

\* the four operations in any order on any job; the attempts report no counters
CleanupNext ==
    \/ \E d \in Dests : Call_enqueue_destination_cleanup(d)
    \/ \E i \in DOMAIN destination_cleanup_jobs : Call_mark_destination_cleanup_in_progress(i)
    \/ \E i \in DOMAIN destination_cleanup_jobs :
           Call_reschedule_destination_cleanup(i, NoCounters)
    \/ \E i \in DOMAIN destination_cleanup_jobs :
           Call_complete_destination_cleanup(i, NoCounters)

SpecCleanup == Init /\ [][CleanupNext]_vars

\* one queued cleanup job for each destination
CleanupRows == <<NewCleanupRow("yt_1", TRUE, 0), NewCleanupRow("yt_2", TRUE, 0)>>

\* the attempts of the two jobs, each reporting its counters
CountersNext ==
    \/ \E i \in DOMAIN destination_cleanup_jobs : Call_mark_destination_cleanup_in_progress(i)
    \/ \E i \in DOMAIN destination_cleanup_jobs, c \in CounterArgs :
           Call_reschedule_destination_cleanup(i, c)
    \/ \E i \in DOMAIN destination_cleanup_jobs, c \in CounterArgs :
           Call_complete_destination_cleanup(i, c)

CountersInit ==
    /\ upload_queue = <<>> /\ next_id = 1 /\ now = 0 /\ nticks = 0
    /\ last = [op |-> "init"]
    /\ sheet = <<>> /\ daily_uploads = {}
    /\ last_upload_time = [d \in Dests |-> NULL]
    /\ youtube_quota = <<>> /\ idempotency_keys = <<>>
    /\ workers = [w \in WorkerIds |-> IdleWorker]
    /\ uploads = <<>> /\ config = DefaultConfig
    /\ destination_cleanup_jobs = CleanupRows
    /\ main = MainStart
    /\ rate_log = [u \in UserIds |-> <<>>]
    /\ rotator = KeyRotator(SCRAPINGDOG_KEYS)
    /\ credentials = <<>>
    /\ refresh = [p \in RefreshIds |-> IdleRefresh]

SpecCleanupCounters == CountersInit /\ [][CountersNext]_vars

\* the step is a call of the cleanup store (a repeated call that changes nothing
\* is a stuttering step)
CleanupCall(op) ==
    /\ last'.op = op
    /\ <<last, destination_cleanup_jobs>>' # <<last, destination_cleanup_jobs>>

ActiveCount(cj, dest) ==
    Cardinality({i \in DOMAIN cj : cj[i].dest_account_id = dest /\ cj[i].status \in {"QUEUED", "IN_PROGRESS"}})

\* C13: in every reachable state at most one cleanup job per destination is QUEUED
\* or IN_PROGRESS, whatever the order of the four operations; enqueue returns False
\* and adds no row when the destination has an active job, and otherwise (also
\* after the previous job is COMPLETED) returns True and adds one QUEUED row.
C13_OneActiveCleanup ==
    [][/\ \A d \in Dests : ActiveCount(destination_cleanup_jobs', d) <= 1
       /\ CleanupCall("enqueue_destination_cleanup") =>
            IF ActiveCount(destination_cleanup_jobs, last'.dest) > 0
            THEN last'.ret = FALSE /\ destination_cleanup_jobs' = destination_cleanup_jobs
            ELSE /\ last'.ret = TRUE
                 /\ Len(destination_cleanup_jobs') = Len(destination_cleanup_jobs) + 1
                 /\ \A i \in DOMAIN destination_cleanup_jobs :
                        destination_cleanup_jobs'[i] = destination_cleanup_jobs[i]
                 /\ destination_cleanup_jobs'[Len(destination_cleanup_jobs')].status = "QUEUED"
                 /\ destination_cleanup_jobs'[Len(destination_cleanup_jobs')].dest_account_id
                        = last'.dest
    ]_vars

\* a destination whose first job is COMPLETED has a second job queued
C13_Witness ==
    /\ last.op = "enqueue_destination_cleanup" /\ last.ret = TRUE
    /\ Len(destination_cleanup_jobs) = 2
    /\ destination_cleanup_jobs[1].dest_account_id = destination_cleanup_jobs[2].dest_account_id
    /\ destination_cleanup_jobs[1].status = "COMPLETED"
    /\ destination_cleanup_jobs[2].status = "QUEUED"

\* the three cumulative counters of a row
Totals(row) ==
    <<row.rows_cleared_total, row.mappings_disabled_total, row.queue_canceled_total>>

\* C14: the counters of a cleanup job are cumulative: a reschedule or a completion
\* that goes through adds exactly the attempt's counts to the stored totals,
\* marking the job in progress leaves them unchanged, no operation lowers or
\* resets them, and a job becomes COMPLETED only by complete_destination_cleanup.
C14_CumulativeCounters ==
    [][\A i \in DOMAIN destination_cleanup_jobs :
         LET old == destination_cleanup_jobs[i]
             new == destination_cleanup_jobs'[i]
             c   == last'.counters
         IN  /\ new.rows_cleared_total >= old.rows_cleared_total
             /\ new.mappings_disabled_total >= old.mappings_disabled_total
             /\ new.queue_canceled_total >= old.queue_canceled_total
             /\ (/\ \/ CleanupCall("reschedule_destination_cleanup")
                    \/ CleanupCall("complete_destination_cleanup")
                 /\ last'.id = i /\ ~last'.raised)
                  => /\ Totals(new) = <<old.rows_cleared_total + c.rows_cleared,
                                        old.mappings_disabled_total + c.mappings_disabled,
                                        old.queue_canceled_total + c.queue_canceled>>
                     /\ new.status = (IF last'.op = "complete_destination_cleanup"
                                      THEN "COMPLETED" ELSE "QUEUED")
             /\ (last'.op \in {"reschedule_destination_cleanup",
                               "complete_destination_cleanup"} /\ last'.id # i)
                  => Totals(new) = Totals(old)
             /\ last'.op = "mark_destination_cleanup_in_progress"
                  => Totals(new) = Totals(old)
             /\ (new.status = "COMPLETED" /\ old.status # "COMPLETED")
                  => last'.op = "complete_destination_cleanup" /\ last'.id = i
    ]_vars

\* an attempt that canceled 3 of 5 jobs was rescheduled, the second attempt
\* canceled the other 2 and completed the job
C14_Witness ==
    /\ last.op = "complete_destination_cleanup"
    /\ last.counters.queue_canceled = 2
    /\ destination_cleanup_jobs[last.id].status = "COMPLETED"
    /\ destination_cleanup_jobs[last.id].attempt_count = 2
    /\ destination_cleanup_jobs[last.id].queue_canceled_total = 5
    /\ destination_cleanup_jobs[last.id].last_error = NO_ERROR

(***************************************************************************)
(* The daily-upload and last-upload tables called directly.                *)
(***************************************************************************)
\* row numbers of two sheet rows
RowIds == {2, 3}

\* record_upload writes both tables in one transaction; the caller has read the
\* day's count before
Call_record_upload(dest, row_id) ==
    /\ Cardinality(daily_uploads) < MaxRecords
    /\ daily_uploads' = record_upload(daily_uploads, dest, row_id, now)
    /\ last_upload_time' = record_last_upload(last_upload_time, dest, now)
    /\ last' = [op |-> "record_upload", dest |-> dest, row_id |-> row_id,
                before |-> get_uploads_today(daily_uploads, dest, now)]
    /\ UNCHANGED <<upload_queue, next_id, now, nticks>>
    /\ UNCHANGED <<sheet, youtube_quota, idempotency_keys, workers, uploads, envVars>>

DailyNext ==
    \/ \E d \in Dests, i \in RowIds : Call_record_upload(d, i)
    \/ \E d \in {UPLOAD_SPACING_SECONDS, SECONDS_PER_DAY} : Tick(d)

SpecDaily == Init /\ [][DailyNext]_vars

\* C15: record_upload is idempotent per (destination, UTC date, item): recording
\* an item already recorded that day leaves uploads_today of the destination
\* unchanged, a new item adds exactly one, the counts and the last upload time
\* of other destinations are unaffected; every call sets the destination's
\* last upload time, which is null as long as nothing was recorded for it.
C15_RecordUpload ==
    [][/\ \A e \in Dests :
            (\A r \in daily_uploads' : r[1] # e) => get_last_upload_time(last_upload_time', e) = NULL
       /\ (last'.op = "record_upload"
           /\ <<last, daily_uploads, last_upload_time>>' # <<last, daily_uploads, last_upload_time>>)
          => LET d == last'.dest
                 today == now \div SECONDS_PER_DAY
                 recorded == \E r \in daily_uploads :
                                 r[1] = d /\ r[2] = today /\ r[3] = last'.row_id
             IN  /\ get_uploads_today(daily_uploads', d, now)
                      = get_uploads_today(daily_uploads, d, now) + (IF recorded THEN 0 ELSE 1)
                 /\ get_last_upload_time(last_upload_time', d) = now
                 /\ \A e \in Dests \ {d} :
                      /\ get_uploads_today(daily_uploads', e, now)
                           = get_uploads_today(daily_uploads, e, now)
                      /\ get_last_upload_time(last_upload_time', e)
                           = get_last_upload_time(last_upload_time, e)
    ]_vars

\* the item was recorded again later the same day: the count stayed at 1 and the
\* last upload time moved
C15_Witness ==
    /\ last.op = "record_upload"
    /\ last.before = 1
    /\ get_uploads_today(daily_uploads, last.dest, now) = 1
    /\ now = UPLOAD_SPACING_SECONDS
    /\ get_last_upload_time(last_upload_time, last.dest) = now

(***************************************************************************)
(* The idempotency table called directly.  Each call is one statement in   *)
(* its own transaction, so two workers recording at once are two calls in  *)
(* either order.                                                           *)
(***************************************************************************)
IdemKeys == {IdemKey("h1", "yt_1"), IdemKey("h1", "yt_2"), IdemKey("h2", "yt_1")}

Call_check_idempotency(idem_key) ==
    /\ last' = [op |-> "check_idempotency", key |-> idem_key,
                ret |-> check_idempotency(idempotency_keys, idem_key)]
    /\ UNCHANGED <<upload_queue, next_id, now, nticks>>
    /\ UNCHANGED pipeVars

Call_record_idempotency(idem_key, queue_id) ==
    /\ idempotency_keys' = record_idempotency(idempotency_keys, idem_key, queue_id)
    /\ last' = [op |-> "record_idempotency", key |-> idem_key, queue_id |-> queue_id]
    /\ UNCHANGED <<upload_queue, next_id, now, nticks>>
    /\ UNCHANGED <<sheet, daily_uploads, last_upload_time, youtube_quota,
                   workers, uploads, envVars>>

IdemNext ==
    \/ \E k \in IdemKeys : Call_check_idempotency(k)
    \/ \E k \in IdemKeys, id \in 1..MaxJobs : Call_record_idempotency(k, id)

SpecIdem == Init /\ [][IdemNext]_vars

\* C16: check_idempotency is false for a key never recorded and true in every
\* state after record_idempotency(key, job) has run; recording a key that is
\* present changes nothing and keeps the first job id, in whatever order two
\* workers record the same key.
C16_IdempotencyKeys ==
    /\ idempotency_keys = <<>>
    /\ [][/\ \A k \in DOMAIN idempotency_keys :
               /\ k \in DOMAIN idempotency_keys'
               /\ idempotency_keys'[k] = idempotency_keys[k]
          /\ last'.op = "check_idempotency"
               => /\ last'.ret = (\E k \in DOMAIN idempotency_keys : k = last'.key)
                  /\ idempotency_keys' = idempotency_keys
          /\ last'.op = "record_idempotency"
               => /\ DOMAIN idempotency_keys' = (DOMAIN idempotency_keys) \cup {last'.key}
                  /\ last'.key \notin DOMAIN idempotency_keys
                       => idempotency_keys'[last'.key] = last'.queue_id
          /\ last'.op \notin {"record_idempotency"}
               => DOMAIN idempotency_keys' = DOMAIN idempotency_keys
       ]_vars

\* a second job recorded a key that the first job had recorded
C16_Witness ==
    /\ last.op = "record_idempotency"
    /\ last.key \in DOMAIN idempotency_keys
    /\ idempotency_keys[last.key] # last.queue_id

(***************************************************************************)
(* The sheet changing under the scheduler: between the poll that enqueued  *)
(* a row and the lock step, someone else rewrites the row's status cell.   *)
(***************************************************************************)
\* what the status cell of a ready row is changed to: cleared, or another status
ExternalStatuses == {"", "UPLOADED", "SKIPPED"}

\* another writer of the spreadsheet changes the status of a ready row
sheet_edit(i, status) ==
    /\ sheet[i].status = "READY_TO_UPLOAD"
    /\ sheet' = update_row_status(sheet, i, status)
    /\ UNCHANGED storeVars
    /\ UNCHANGED <<workers, uploads, envVars>>
    /\ UNCHANGED auxVars

ConflictNext ==
    \/ PipelineNext
    \/ \E i \in DOMAIN sheet, st \in ExternalStatuses : sheet_edit(i, st)

SpecConflict == InitWith(RowsOne, DefaultConfig) /\ [][ConflictNext]_vars

\* thread w executes the lock step
LockStep(w) == workers[w].pc = "lock" /\ workers'[w].pc # "lock"

\* C17: at the lock step, for every current status of the row other than
\* READY_TO_UPLOAD the row is not written, the job becomes FAILED with a
\* status_conflict error whatever its retry_count, and process_upload_job returns
\* without running a later step or touching the cap, quota and idempotency tables.
C17_LockConflict ==
    [][\A w \in WorkerIds :
         (LockStep(w) /\ sheet[Row(w)].status # "READY_TO_UPLOAD")
            => /\ sheet' = sheet
               /\ upload_queue'[workers[w].id].status = "FAILED"
               /\ upload_queue'[workers[w].id].error_msg = ErrConflict
               /\ workers'[w].pc = "done"
               /\ UNCHANGED <<daily_uploads, last_upload_time, youtube_quota,
                              idempotency_keys, uploads>>
    ]_vars

(***************************************************************************)
(* The four store writes of a successful upload.                           *)
(***************************************************************************)
CompletedJobs == {id \in DOMAIN upload_queue : upload_queue[id].status = "COMPLETED"}

\* the daily-upload record of a job
HasUploadRecord(id) ==
    \E r \in daily_uploads :
        r[1] = upload_queue[id].dest_account_id /\ r[3] = upload_queue[id].row_id

\* the idempotency key recorded by a job
HasIdemKey(id) ==
    \E k \in DOMAIN idempotency_keys : idempotency_keys[k] = id

\* C18: the COMPLETED transition, the daily-upload record, the idempotency key
\* and the quota charge of a successful upload are there together or not at
\* all, in every reachable state.
C18_AtomicSuccess ==
    /\ \A id \in DOMAIN upload_queue :
          /\ (upload_queue[id].status = "COMPLETED") = HasUploadRecord(id)
          /\ (upload_queue[id].status = "COMPLETED") = HasIdemKey(id)
    /\ TotalUnits(youtube_quota, DOMAIN youtube_quota)
          = YT_QUOTA_UNITS_PER_UPLOAD * Cardinality(CompletedJobs)

(***************************************************************************)
(* A dispatch batch of two jobs with the Sheets API failing.               *)
(***************************************************************************)
SpecBatch == InitWith(RowsPair, FaultyConfig) /\ [][FaultyNext]_vars

\* a step of thread w inside process_upload_job, or run_workers handling the
\* exception that left it
WorkerStep(w) ==
    \/ pj_mark_in_progress(w)
    \/ \E e \in FaultChoices : pj_lock_row(w, e)
    \/ \E f \in FaultChoices : pj_read_row(w, f)
    \/ \E f \in FaultChoices : pj_idempotency_check(w, f)
    \/ \E f \in FaultChoices : pj_duplicate_check(w, f)
    \/ pj_spacing(w)
    \/ pj_slot_cap(w)
    \/ \E o \in MediaOutcomes, f \in FaultChoices : pj_media(w, o, f)
    \/ \E f \in FaultChoices : pj_quota_guard(w, f)
    \/ \E o \in UploadOutcomes, f \in FaultChoices : pj_upload(w, o, f)
    \/ pj_mark_completed(w)
    \/ pj_record_upload(w)
    \/ pj_record_idempotency(w)
    \/ pj_record_quota_usage(w)
    \/ \E f \in FaultChoices : pj_mark_uploaded(w, f)
    \/ run_workers_except(w)

\* thread w fails in this step: its job returns an error, raises, or has its
\* exception handled by run_workers
FailureStep(w) ==
    \/ workers[w].pc # "raised" /\ workers'[w].pc = "raised"
    \/ workers[w].pc = "raised" /\ workers'[w].pc # "raised"
    \/ workers[w].pc # "done" /\ workers'[w].pc = "done" /\ workers'[w].res = "error"

\* C19: within a batch a job's failure or exception leaves the sibling's thread
\* and job row as they are, and every job in flight can always take its next
\* step, so each runs to its own outcome; the failing job's error is written to
\* its row; run_workers returns only when every job of the batch has its
\* outcome, and an exception never gets further than its handler.
C19_SiblingsRun ==
    /\ [](\A v \in WorkerIds :
             workers[v].pc \notin {"idle", "done"} => ENABLED WorkerStep(v))
    /\ [][/\ \A w \in WorkerIds : FailureStep(w) =>
                /\ \A v \in WorkerIds \ {w} :
                      /\ workers'[v] = workers[v]
                      /\ workers[v].pc # "idle"
                           => upload_queue'[workers[v].id] = upload_queue[workers[v].id]
                /\ workers'[w].pc = "done"
                     => /\ upload_queue'[workers[w].id].error_msg # NO_ERROR
                        /\ upload_queue'[workers[w].id].status \in {"QUEUED", "FAILED"}
          /\ (\E w \in WorkerIds : workers[w].pc # "idle" /\ workers'[w].pc = "idle")
                => /\ \A w \in WorkerIds : workers[w].pc \in {"idle", "done"}
                   /\ \A w \in WorkerIds : workers'[w].pc = "idle"
       ]_vars

\* one job raised and had its error written, its sibling uploaded
C19_Witness ==
    \E w, v \in WorkerIds :
        /\ workers[w].pc = "done" /\ workers[w].res = "raised"
        /\ upload_queue[workers[w].id].error_msg = "HttpError"
        /\ workers[v].pc = "done" /\ workers[v].res = "uploaded"
        /\ upload_queue[workers[v].id].status = "COMPLETED"

(***************************************************************************)
(* The continuous polling loop of main() and the signal handler.  The      *)
(* handler runs in the main thread between any two of its steps, and while *)
(* it waits for the pool.                                                  *)
(***************************************************************************)
mainOnly ==
    /\ UNCHANGED storeVars
    /\ UNCHANGED auxVars
    /\ UNCHANGED <<sheet, workers, uploads, config, destination_cleanup_jobs, botVars>>

\* _handle_shutdown: _shutdown_event.set()
handle_shutdown ==
    /\ main.pc # "stopped"
    /\ ~main.shutdown
    /\ main' = [main EXCEPT !.shutdown = TRUE]
    /\ mainOnly

\* while not _shutdown_event.is_set(): ... ; log_event("scheduler_stop")
main_while ==
    /\ main.pc = "while"
    /\ main' = [main EXCEPT !.pc = IF main.shutdown THEN "stopped" ELSE "poll"]
    /\ mainOnly

\* enqueued = poll_and_enqueue()
main_poll ==
    /\ main.pc = "poll"
    /\ \E e, f \in FaultChoices :
          LET r == PollNow(e, f) IN
          /\ do_poll_and_enqueue(r)
          \* except Exception: the cycle is over, the loop waits and polls again
          /\ main' = IF r.raised THEN [main EXCEPT !.pc = "wait"]
                     ELSE [main EXCEPT !.pc = "check", !.enqueued = (r.enqueued > 0)]
    /\ UNCHANGED last

\* if not _shutdown_event.is_set():
main_check ==
    /\ main.pc = "check"
    /\ main' = [main EXCEPT !.pc = IF main.shutdown THEN "wait" ELSE "dispatch"]
    /\ mainOnly

\* get_queue_stats().get("queued", 0)
QueuedCount == Cardinality({i \in DOMAIN upload_queue : upload_queue[i].status = "QUEUED"})

\* if enqueued or queued > 0: run_workers()  -- the jobs go to the pool
main_dispatch ==
    /\ main.pc = "dispatch"
    /\ main.enqueued \/ QueuedCount > 0
    /\ do_run_workers_submit
    /\ main' = [main EXCEPT !.pc = "workers"]

\* nothing queued, or run_workers finds no due job and returns 0
main_skip ==
    /\ main.pc = "dispatch"
    /\ \/ ~(main.enqueued \/ QueuedCount > 0)
       \/ \A jobs \in get_next_jobs(upload_queue, MAX_CONCURRENT_WORKERS, now) : Len(jobs) = 0
    /\ main' = [main EXCEPT !.pc = "wait"]
    /\ mainOnly

\* run_workers returns: every future is done
main_join ==
    /\ main.pc = "workers"
    /\ do_run_workers_return
    /\ main' = [main EXCEPT !.pc = "wait"]

\* _shutdown_event.wait(timeout=POLL_INTERVAL_SECONDS), the event clear
main_wait ==
    /\ main.pc = "wait"
    /\ ~main.shutdown
    /\ do_Sleep
    /\ main' = [main EXCEPT !.pc = "while"]

\* _shutdown_event.wait(...) returns at once when the event is set
main_wake ==
    /\ main.pc = "wait"
    /\ main.shutdown
    /\ main' = [main EXCEPT !.pc = "while"]
    /\ mainOnly

MainStep ==
    \/ main_while
    \/ main_poll
    \/ main_check
    \/ main_dispatch
    \/ main_skip
    \/ main_join
    \/ main_wait
    \/ main_wake

LoopNext ==
    \/ MainStep
    \/ handle_shutdown
    \/ \E w \in WorkerIds : WorkerStep(w)

SpecLoop == InitWith(RowsOne, FaultyConfig) /\ [][LoopNext]_vars

\* the main thread and every pool thread keep running
SpecLoopFair ==
    SpecLoop /\ WF_vars(MainStep) /\ \A w \in WorkerIds : WF_vars(WorkerStep(w))

\* C20: once the shutdown signal has been received, no dispatch cycle is
\* started, no job in flight is taken off its thread before it has its outcome,
\* and the main thread does not sleep through another poll interval.
C20_ShutdownStopsDispatch ==
    [][main.shutdown =>
         /\ ~(AllIdle /\ \E w \in WorkerIds : workers'[w].pc # "idle")
         /\ \A w \in WorkerIds :
               workers[w].pc \notin {"idle", "done"} => workers'[w].pc # "idle"
         /\ AllIdle => now' = now
    ]_vars

\* after the signal the loop ends: scheduler_stop is reached
C20_LoopTerminates == main.shutdown ~> (main.pc = "stopped")

(***************************************************************************)
(* Single-cycle mode: main() with --once, started MaxRuns times on the     *)
(* same database and sheet.                                                *)
(***************************************************************************)
\* main() called with --once, before the startup reconcile()
OnceStart == [pc |-> "reconcile", shutdown |-> FALSE, enqueued |-> FALSE, runs |-> 1]

\* what the main thread leaves alone when it only moves on
onceOnly ==
    /\ UNCHANGED <<next_id, now, nticks, last>>
    /\ UNCHANGED auxVars
    /\ UNCHANGED <<sheet, workers, uploads, config, destination_cleanup_jobs, botVars>>

\* reconcile(): queue_db.reset_stale_jobs(STALE_IN_PROGRESS_HOURS)
once_reconcile ==
    /\ main.pc = "reconcile"
    /\ upload_queue' = reset_stale_jobs(upload_queue, STALE_IN_PROGRESS_HOURS, now)
    /\ main' = [main EXCEPT !.pc = "poll"]
    /\ onceOnly

\* enqueued = poll_and_enqueue()
once_poll ==
    /\ main.pc = "poll"
    /\ \E e, f \in FaultChoices :
          LET r == PollNow(e, f) IN
          /\ do_poll_and_enqueue(r)
          \* an exception of the poll ends main()
          /\ main' = IF r.raised THEN [main EXCEPT !.pc = "exited"]
                     ELSE [main EXCEPT !.pc = "dispatch", !.enqueued = (r.enqueued > 0)]
    /\ UNCHANGED last

\* if enqueued: run_workers()  -- the due jobs go to the pool
once_dispatch ==
    /\ main.pc = "dispatch"
    /\ main.enqueued
    /\ do_run_workers_submit
    /\ main' = [main EXCEPT !.pc = "workers"]

\* the poll enqueued nothing, or run_workers finds no due job: return
once_skip ==
    /\ main.pc = "dispatch"
    /\ \/ ~main.enqueued
       \/ \A jobs \in get_next_jobs(upload_queue, MAX_CONCURRENT_WORKERS, now) : Len(jobs) = 0
    /\ main' = [main EXCEPT !.pc = "exited"]
    /\ UNCHANGED upload_queue
    /\ onceOnly

\* run_workers returns and main() returns
once_join ==
    /\ main.pc = "workers"
    /\ do_run_workers_return
    /\ main' = [main EXCEPT !.pc = "exited"]

\* the command is run again
once_start ==
    /\ main.pc = "exited"
    /\ main.runs < MaxRuns
    /\ main' = [main EXCEPT !.pc = "reconcile", !.runs = @ + 1]
    /\ UNCHANGED upload_queue
    /\ onceOnly

OnceNext ==
    \/ once_reconcile
    \/ once_poll
    \/ once_dispatch
    \/ once_skip
    \/ once_join
    \/ once_start
    \/ \E w \in WorkerIds : WorkerStep(w)
    \/ Sleep

OnceInit == InitStore(RowsCap, FaultyConfig) /\ main = OnceStart

SpecOnce == OnceInit /\ [][OnceNext]_vars

\* C21: in single-cycle mode the run, having polled, runs the dispatcher over
\* the jobs that are due in the job store, whether this poll enqueued them or
\* they were QUEUED before, and only then exits.
C21_OnceDispatches ==
    [][(main.pc = "dispatch" /\ main'.pc # "dispatch"
        /\ \E jobs \in get_next_jobs(upload_queue, MAX_CONCURRENT_WORKERS, now) : Len(jobs) > 0)
         => /\ main'.pc = "workers"
            /\ \E w \in WorkerIds : workers'[w].pc = "start"
    ]_vars

(***************************************************************************)
(* Deferral: requeue_at against jobs in every status, with the failures    *)
(* that give a job a retry count and an error message.                     *)
(***************************************************************************)
\* the timestamps a caller defers to: now, or one or two backoff bases ahead
WhenArgs == {now, now + RETRY_BACKOFF_BASE, now + 2 * RETRY_BACKOFF_BASE}

RequeueNext ==
    \/ \E c \in CandidatesA : Call_enqueue(c)
    \/ \E id \in 1..MaxJobs :
          /\ id \in DOMAIN upload_queue /\ upload_queue[id].status = "QUEUED"
          /\ Call_mark_in_progress(id)
    \/ \E id \in 1..MaxJobs :
          /\ id \in DOMAIN upload_queue /\ upload_queue[id].status = "IN_PROGRESS"
          /\ upload_queue[id].retry_count < 1
          /\ Call_mark_failed(id, ErrTransient, MAX_UPLOAD_ATTEMPTS)
    \/ \E id \in 1..MaxJobs, when \in WhenArgs : Call_requeue_at(id, when)
    \/ \E limit \in 1..MAX_CONCURRENT_WORKERS : Call_get_next_jobs(limit)
    \/ Tick(RETRY_BACKOFF_BASE)

SpecRequeue == Init /\ [][RequeueNext]_vars

\* the fields of a job that requeue_at does not write
KeptByRequeue(r) == [r EXCEPT !.status = "", !.next_attempt_after = NULL, !.updated_at = 0]

\* C22: requeue_at(id, t) sets the job's status to QUEUED and its
\* next_attempt_after to t; its retry_count, its error message and every other
\* field but the modification stamp stay, no other job is modified; and
\* get_next_jobs never returns a job whose next_attempt_after is still ahead.
C22_RequeueAt ==
    [][ /\ \A id \in 1..MaxJobs, when \in WhenArgs :
              Call_requeue_at(id, when) =>
                 /\ DOMAIN upload_queue' = DOMAIN upload_queue
                 /\ \A i \in DOMAIN upload_queue :
                       IF i = id
                       THEN /\ upload_queue'[i].status = "QUEUED"
                            /\ upload_queue'[i].next_attempt_after = when
                            /\ upload_queue'[i].retry_count = upload_queue[i].retry_count
                            /\ upload_queue'[i].error_msg = upload_queue[i].error_msg
                            /\ KeptByRequeue(upload_queue'[i]) = KeptByRequeue(upload_queue[i])
                       ELSE upload_queue'[i] = upload_queue[i]
        /\ \A limit \in 1..MAX_CONCURRENT_WORKERS :
              Call_get_next_jobs(limit) =>
                 \A k \in 1..Len(last'.ret) :
                    LET r == upload_queue[last'.ret[k]]
                    IN  r.next_attempt_after = NULL \/ r.next_attempt_after <= now
      ]_vars

\* a job that failed once has been deferred to a later time
C22_Witness ==
    /\ last.op = "requeue_at"
    /\ \E i \in DOMAIN upload_queue :
          /\ upload_queue[i].status = "QUEUED"
          /\ upload_queue[i].retry_count = 1
          /\ upload_queue[i].error_msg = ErrTransient
          /\ upload_queue[i].next_attempt_after = now + 2 * RETRY_BACKOFF_BASE
          /\ upload_queue[i].updated_at = now

(***************************************************************************)
(* Removing a destination: cancel_jobs_for_dest against jobs of two        *)
(* destinations in every status.                                           *)
(***************************************************************************)
CancelNext ==
    \/ \E c \in Candidates : Call_enqueue(c)
    \/ \E id \in 1..MaxJobs :
          /\ id \in DOMAIN upload_queue /\ upload_queue[id].status = "QUEUED"
          /\ Call_mark_in_progress(id)
    \/ \E id \in 1..MaxJobs :
          /\ id \in DOMAIN upload_queue /\ upload_queue[id].status = "IN_PROGRESS"
          /\ Call_mark_completed(id)
    \/ \E id \in 1..MaxJobs :
          /\ id \in DOMAIN upload_queue /\ upload_queue[id].status = "IN_PROGRESS"
          /\ upload_queue[id].retry_count < 1
          /\ Call_mark_failed(id, ErrTransient, MAX_UPLOAD_ATTEMPTS)
    \/ \E dest \in Dests : Call_cancel_jobs_for_dest(dest)

SpecCancel == Init /\ [][CancelNext]_vars

\* C23: cancel_jobs_for_dest(d) sets every QUEUED or IN_PROGRESS job of d to
\* FAILED with error dest_removed and no next_attempt_after, returns the number
\* of jobs it changed, leaves every other job as it is and every retry_count
\* as it is; the same call made again right after would change no job.
C23_CancelForDestination ==
    [][ \A dest \in Dests :
          Call_cancel_jobs_for_dest(dest) =>
             LET hit == {i \in DOMAIN upload_queue :
                           /\ upload_queue[i].dest_account_id = dest
                           /\ upload_queue[i].status \in {"QUEUED", "IN_PROGRESS"}}
             IN  /\ DOMAIN upload_queue' = DOMAIN upload_queue
                 /\ \A i \in DOMAIN upload_queue :
                       /\ upload_queue'[i].retry_count = upload_queue[i].retry_count
                       /\ IF i \in hit
                          THEN /\ upload_queue'[i].status = "FAILED"
                               /\ upload_queue'[i].error_msg = "dest_removed"
                               /\ upload_queue'[i].next_attempt_after = NULL
                          ELSE upload_queue'[i] = upload_queue[i]
                 /\ last'.ret = Cardinality({i \in DOMAIN upload_queue :
                                               upload_queue'[i] # upload_queue[i]})
                 /\ last'.ret = Cardinality(hit)
                 /\ CancelRowCount(upload_queue', dest) = 0
      ]_vars

\* a cancel changed one job of its destination while a job of the other
\* destination is still active and a job has a retry count
C23_Witness ==
    /\ last.op = "cancel_jobs_for_dest"
    /\ last.ret = 1
    /\ \E i, j \in DOMAIN upload_queue :
          /\ upload_queue[i].error_msg = "dest_removed"
          /\ upload_queue[i].status = "FAILED"
          /\ upload_queue[j].dest_account_id # upload_queue[i].dest_account_id
          /\ upload_queue[j].status \in {"QUEUED", "IN_PROGRESS"}

(***************************************************************************)
(* The retry schedule: failures of a job one after the other, with the     *)
(* pipeline's max_retries and with one the retry count never reaches.      *)
(***************************************************************************)
MaxRetriesArgs == {MAX_UPLOAD_ATTEMPTS, MaxRetryCount + 1}

BackoffNext ==
    \/ \E c \in CandidatesA : c.row_id = 1 /\ Call_enqueue(c)
    \/ \E id \in 1..MaxJobs, e \in {ErrTransient, ErrConflict}, m \in MaxRetriesArgs :
          Call_mark_failed(id, e, m)
    \/ Tick(RETRY_BACKOFF_BASE)
    \/ Tick(SECONDS_PER_HOUR)

SpecBackoff == Init /\ [][BackoffNext]_vars

\* C24: the n-th failure of a job, n < max_retries, sets next_attempt_after to
\* now + RETRY_BACKOFF_BASE * 3^(n-1) (2, 6, 18, ... seconds), and that delay is
\* strictly longer than the delay the job's previous failure set.
C24_BackoffGrows ==
    [][ \A id \in 1..MaxJobs, e \in {ErrTransient, ErrConflict}, m \in MaxRetriesArgs :
          (id \in DOMAIN upload_queue /\ Call_mark_failed(id, e, m)
             /\ upload_queue[id].retry_count + 1 < m) =>
             LET old == upload_queue[id]
                 new == upload_queue'[id]
                 n == old.retry_count + 1
                 delay == new.next_attempt_after - now
             IN  /\ delay = RETRY_BACKOFF_BASE * ThreeToThe[n]
                 /\ delay = <<2, 6, 18, 54, 162>>[n]
                 /\ (n > 1 /\ old.status = "QUEUED") =>
                       delay > old.next_attempt_after - old.updated_at
      ]_vars

\* a job has failed three times and waits 18 seconds for its next attempt
C24_Witness ==
    /\ last.op = "mark_failed"
    /\ \E i \in DOMAIN upload_queue :
          /\ upload_queue[i].status = "QUEUED"
          /\ upload_queue[i].retry_count = 3
          /\ upload_queue[i].next_attempt_after = now + 18
          /\ upload_queue[i].updated_at = now

(***************************************************************************)
(* The Telegram rate limiter: _rate_limit_check(user_id) on _rate_log.     *)
(***************************************************************************)
\* the calls of a user that are younger than the window
LiveCalls(log, t) == SelectSeq(log, LAMBDA x : t - x < RATE_WINDOW)

\* _rate_limit_check that lets the call at the limit through.
rate_limit_check_OffByOne(log, user_id, t) ==
    LET live == LiveCalls(log[user_id], t) IN
    IF Len(live) > TELEGRAM_RATE_LIMIT_PER_MIN
    THEN [ret |-> FALSE, log |-> [log EXCEPT ![user_id] = live]]
    ELSE [ret |-> TRUE, log |-> [log EXCEPT ![user_id] = Append(live, t)]]

\* prune the user's entries, refuse at the limit, otherwise append now
rate_limit_check(log, user_id, t) ==
    LET live == LiveCalls(log[user_id], t) IN
    IF Len(live) >= TELEGRAM_RATE_LIMIT_PER_MIN
    THEN [ret |-> FALSE, log |-> [log EXCEPT ![user_id] = live]]
    ELSE [ret |-> TRUE, log |-> [log EXCEPT ![user_id] = Append(live, t)]]

\* a command or a button press of user_id reaches the bot; the second user
\* sends a few messages only
Call_rate_limit_check(user_id) ==
    /\ user_id = 222 => Len(rate_log[user_id]) < MaxQuietCalls
    /\ rate_log' = rate_limit_check(rate_log, user_id, now).log
    /\ last' = [op |-> "rate_limit_check", user |-> user_id,
                ret |-> rate_limit_check(rate_log, user_id, now).ret]
    /\ UNCHANGED <<upload_queue, next_id, now, nticks>>
    /\ UNCHANGED <<sheet, daily_uploads, last_upload_time, youtube_quota,
                   idempotency_keys, workers, uploads>>
    /\ UNCHANGED <<config, destination_cleanup_jobs, main, rotator, credVars>>

RateNext ==
    \/ \E u \in UserIds : Call_rate_limit_check(u)
    \/ Tick(RATE_WINDOW \div 2)

SpecRate == Init /\ [][RateNext]_vars

\* the calls of the log that fall into the window of RATE_WINDOW seconds from s
InWindow(log, s) == {i \in 1..Len(log) : s <= log[i] /\ log[i] < s + RATE_WINDOW}

\* C25: for every user at most TELEGRAM_RATE_LIMIT_PER_MIN calls are let
\* through within any window of 60 seconds; a call that finds the window full
\* is refused and not counted, a call that finds room is let through and
\* counted, and a call of one user leaves the log of every other user alone.
C25_RateLimit ==
    /\ [](\A u \in UserIds, s \in 0..now :
             Cardinality(InWindow(rate_log[u], s)) <= TELEGRAM_RATE_LIMIT_PER_MIN)
    /\ [][ \A u \in UserIds :
             Call_rate_limit_check(u) =>
                LET held == Cardinality({i \in 1..Len(rate_log[u]) :
                                           now - rate_log[u][i] < RATE_WINDOW})
                IN  /\ last'.ret = (held < TELEGRAM_RATE_LIMIT_PER_MIN)
                    /\ Len(rate_log'[u]) = IF last'.ret THEN held + 1 ELSE held
                    /\ \A v \in UserIds \ {u} : rate_log'[v] = rate_log[v]
         ]_vars

\* a user who had filled the window is let through again after half of the
\* calls have aged out, while the other user's calls are in the log
C25_Witness ==
    /\ last.op = "rate_limit_check" /\ last.user = 111 /\ last.ret
    /\ now = RATE_WINDOW
    /\ Len(rate_log[111]) = TELEGRAM_RATE_LIMIT_PER_MIN
    /\ rate_log[111][1] = RATE_WINDOW \div 2
    /\ rate_log[111][TELEGRAM_RATE_LIMIT_PER_MIN] = RATE_WINDOW
    /\ Len(rate_log[222]) > 0

(***************************************************************************)
(* Key rotation of the scraper: KeyRotator.next_key and report_result.     *)
(* The pacing of next_key (_last_used, a sleep of at most _min_interval)   *)
(* delays the caller and has no part in which key is returned.             *)
(***************************************************************************)
\* failures = sum(1 for ok in log if not ok)
Failures(log) == Cardinality({i \in 1..Len(log) : ~log[i]})

\* _error_rate(k1) < _error_rate(k2), the rates as fractions; an empty log has
\* the rate 0.0
RateBelow(log1, log2) ==
    Failures(log1) * Max2(Len(log2), 1) < Failures(log2) * Max2(Len(log1), 1)

\* rate > SCRAPINGDOG_ERROR_THRESHOLD
OverThreshold(log) ==
    Len(log) > 0 /\ Failures(log) * 100 > SCRAPINGDOG_ERROR_THRESHOLD_PERCENT * Len(log)

\* self._request_log[key][-window:]
LastEntries(log, window) ==
    IF Len(log) > window THEN SubSeq(log, Len(log) - window + 1, Len(log)) ELSE log

\* report_result that disables without waiting for the sample size.
report_result_NoMinimum(rot, key, success) ==
    LET log == LastEntries(Append(rot.request_log[key], success), SCRAPINGDOG_WINDOW_SIZE)
    IN  [rot EXCEPT !.request_log[key] = log,
                    !.disabled_keys = IF OverThreshold(log) THEN @ \cup {key} ELSE @]

report_result(rot, key, success) ==
    LET log == LastEntries(Append(rot.request_log[key], success), SCRAPINGDOG_WINDOW_SIZE)
    IN  [rot EXCEPT !.request_log[key] = log,
                    !.disabled_keys = IF Len(log) >= MIN_SAMPLE_SIZE /\ OverThreshold(log)
                                      THEN @ \cup {key} ELSE @]

\* min(self.keys, key=_error_rate): the first key of the list no key is below
BestKey(rot) ==
    LET n == Len(rot.keys)
        Lowest(i) == \A j \in 1..n : ~RateBelow(rot.request_log[rot.keys[j]],
                                                rot.request_log[rot.keys[i]])
        i == CHOOSE i \in 1..n : Lowest(i) /\ \A j \in 1..(i - 1) : ~Lowest(j)
    IN  rot.keys[i]

\* The while loop tries len(keys) keys from _index on and returns the first
\* that is not disabled; failing that the key with the lowest error rate is
\* enabled again and returned.  _index is kept modulo len(keys), which is all
\* the code reads of it.
next_key(rot) ==
    LET n == Len(rot.keys)
        At(j) == rot.keys[((rot.index + j) % n) + 1]
        Free == {j \in 0..(n - 1) : At(j) \notin rot.disabled_keys}
    IN  IF rot.keys = <<"">> THEN [ret |-> "", rot |-> rot]
        ELSE IF Free # {}
        THEN LET j == CHOOSE j \in Free : \A k \in Free : j <= k
             IN  [ret |-> At(j), rot |-> [rot EXCEPT !.index = (@ + j + 1) % n]]
        ELSE IF rot.disabled_keys # {}
        THEN [ret |-> BestKey(rot),
              rot |-> [rot EXCEPT !.index = (@ + n) % n,
                                  !.disabled_keys = @ \ {BestKey(rot)}]]
        ELSE [ret |-> rot.keys[1], rot |-> [rot EXCEPT !.index = (@ + n) % n]]

rotatorUnchanged ==
    /\ UNCHANGED <<upload_queue, next_id, now, nticks>>
    /\ UNCHANGED <<sheet, daily_uploads, last_upload_time, youtube_quota,
                   idempotency_keys, workers, uploads>>
    /\ UNCHANGED <<config, destination_cleanup_jobs, main, rate_log, credVars>>

Call_next_key ==
    /\ rotator' = next_key(rotator).rot
    /\ last' = [op |-> "next_key", ret |-> next_key(rotator).ret]
    /\ rotatorUnchanged

\* how often the results in the log change between success and failure
Turns(log) == Cardinality({i \in 1..(Len(log) - 1) : log[i] # log[i + 1]})

\* the turns of all logs together
RECURSIVE TotalTurns(_, _)
TotalTurns(request_log, keys) ==
    IF keys = {} THEN 0
    ELSE LET k == CHOOSE k \in keys : TRUE
         IN  Turns(request_log[k]) + TotalTurns(request_log, keys \ {k})

\* the scraper reports the outcome of a request made with the key; the
\* outcomes come in runs
Call_report_result(key, success) ==
    /\ TotalTurns([rotator.request_log EXCEPT ![key] = Append(@, success)],
                  DOMAIN rotator.request_log) <= MaxTurns
    /\ rotator' = report_result(rotator, key, success)
    /\ last' = [op |-> "report_result"]
    /\ rotatorUnchanged

RotatorNext ==
    \/ Call_next_key
    \/ \E i \in 1..Len(SCRAPINGDOG_KEYS), success \in BOOLEAN :
          Call_report_result(SCRAPINGDOG_KEYS[i], success)

SpecRotator == Init /\ [][RotatorNext]_vars

KeySet == {SCRAPINGDOG_KEYS[i] : i \in 1..Len(SCRAPINGDOG_KEYS)}

\* C26: report_result disables the key when its window holds at least 10
\* results and more than the threshold of them are failures, and disables no
\* key otherwise; next_key returns a key that is not disabled whenever there is
\* one, and with every key disabled it returns a key with the lowest error
\* rate, enabled again.
C26_KeyHealth ==
    [][ /\ \A k \in KeySet, success \in BOOLEAN :
              Call_report_result(k, success) =>
                 LET log == rotator'.request_log[k]
                     over == /\ Len(log) >= 10
                             /\ Failures(log) * 100 > 20 * Len(log)
                 IN  /\ (k \notin rotator.disabled_keys) =>
                            ((k \in rotator'.disabled_keys) <=> over)
                     /\ rotator'.disabled_keys \ {k} = rotator.disabled_keys \ {k}
        /\ Call_next_key =>
              IF KeySet \ rotator.disabled_keys # {}
              THEN /\ last'.ret \in KeySet \ rotator.disabled_keys
                   /\ rotator'.disabled_keys = rotator.disabled_keys
              ELSE /\ last'.ret \in KeySet
                   /\ \A k \in KeySet : ~RateBelow(rotator.request_log[k],
                                                   rotator.request_log[last'.ret])
                   /\ rotator'.disabled_keys = rotator.disabled_keys \ {last'.ret}
      ]_vars

\* with both keys disabled next_key has enabled the second key again, the one
\* with the lower error rate
C26_Witness ==
    /\ last.op = "next_key" /\ last.ret = "key_b"
    /\ rotator.disabled_keys = {"key_a"}
    /\ OverThreshold(rotator.request_log["key_b"])
    /\ Len(rotator.request_log["key_b"]) >= MIN_SAMPLE_SIZE
    /\ RateBelow(rotator.request_log["key_b"], rotator.request_log["key_a"])

\* C27: a job that is COMPLETED keeps that status and its retry_count in every
\* later step of the pipeline and of the dispatcher, the handling of an
\* exception raised after the COMPLETED write included.
C27_CompletedTerminal ==
    [][ \A id \in DOMAIN upload_queue :
          upload_queue[id].status = "COMPLETED" =>
             /\ upload_queue'[id].status = "COMPLETED"
             /\ upload_queue'[id].retry_count = upload_queue[id].retry_count
      ]_vars

\* the job was put back by requeue_at: it waits for a time and has not failed
DeferredJob(r) == r.retry_count = 0 /\ r.next_attempt_after # NULL

\* C28: a job deferred at slot or cap enforcement that is dispatched again at
\* or after its slot time, with no edit of its row from outside in between,
\* passes the lock step and goes on to read its row; the lock step does not
\* fail it.
C28_DeferredProceeds ==
    [][ \A w \in WorkerIds :
          ( /\ workers[w].pc = "lock"
            /\ DeferredJob(Job(w))
            /\ now >= Job(w).next_attempt_after
            /\ pj_lock_row(w, FALSE) ) =>
             /\ workers'[w].pc = "read"
             /\ upload_queue'[workers[w].id].status = "IN_PROGRESS"
      ]_vars

(***************************************************************************)
(* The lock step as the Sheets API runs it: update_row_status reads the     *)
(* status cell with one request and writes it with another.  Two scheduler *)
(* processes on the same queue.db and spreadsheet, each with the thread     *)
(* that holds the job.                                                     *)
(***************************************************************************)
\* run_workers of one process: get_next_jobs, then a thread for the job
peer_submit(w) ==
    /\ workers[w].pc = "idle"
    /\ \E jobs \in get_next_jobs(upload_queue, MAX_CONCURRENT_WORKERS, now) :
          \E k \in 1..Len(jobs) :
             workers' = [workers EXCEPT ![w] = [IdleWorker EXCEPT !.pc = "start", !.id = jobs[k]]]
    /\ UNCHANGED storeVars
    /\ UNCHANGED <<sheet, uploads, envVars>>
    /\ UNCHANGED auxVars

\* sheets.values().get of column O and the test of the value read; on
\* HttpError the code goes on to the write
lock_read(w, read_error) ==
    /\ workers[w].pc = "lock"
    /\ IF ~read_error /\ StatusConflict(sheet, Row(w), "READY_TO_UPLOAD")
       THEN /\ upload_queue' = mark_failed(upload_queue, workers[w].id, ErrConflict, 0, now)
            /\ workers' = Return(w, "error")
       ELSE /\ upload_queue' = upload_queue
            /\ workers' = [workers EXCEPT ![w].pc = "lock_write",
                                          ![w].res = IF read_error THEN "read_failed" ELSE "read_ok"]
    /\ UNCHANGED <<next_id, now, nticks, last, sheet, uploads, envVars>>
    /\ UNCHANGED auxVars

\* sheets.values().batchUpdate: the status cell is set to IN_PROGRESS
lock_write(w) ==
    /\ workers[w].pc = "lock_write"
    /\ sheet' = update_row_status(sheet, Row(w), "IN_PROGRESS")
    /\ workers' = Goto(w, "read")
    /\ UNCHANGED storeVars
    /\ UNCHANGED <<uploads, envVars>>
    /\ UNCHANGED auxVars

LockNext ==
    \/ poll_and_enqueue
    \/ \E w \in WorkerIds : peer_submit(w)
    \/ \E w \in WorkerIds : pj_mark_in_progress(w)
    \/ \E w \in WorkerIds, e \in FaultChoices : lock_read(w, e)
    \/ \E w \in WorkerIds : lock_write(w)
    \/ Sleep

SpecLock == InitWith(RowsPair, FaultyConfig) /\ [][LockNext]_vars

\* the thread has passed the lock step on its row
HoldsLock(w) == workers[w].pc = "read"

\* C29: of the attempts to lock a row at most one passes the lock step, in
\* every interleaving, and an attempt whose read of the status failed does not
\* pass it.
C29_LockExclusive ==
    /\ \A w1, w2 \in WorkerIds :
          (w1 # w2 /\ HoldsLock(w1) /\ HoldsLock(w2)) => Row(w1) # Row(w2)
    /\ \A w \in WorkerIds : HoldsLock(w) => workers[w].res # "read_failed"

\* the errors the pipeline reports to the sheet as not retryable before it
\* reaches the upload
NonRetryableErrors ==
    {"no_source_url", "no_destination_mapped", "max_attempts_reached",
     "duplicate_for_destination", "validation_failed"}

\* C30: a job failed for a reason that is not retryable before the upload
\* step (a failed precondition, a duplicate for the destination, a failed
\* validation or a missing upload adapter) is not QUEUED afterwards.
C30_NonRetryableTerminal ==
    \A id \in DOMAIN upload_queue :
       upload_queue[id].error_msg \in NonRetryableErrors => upload_queue[id].status # "QUEUED"

\* C31: a job turned away by the quota guard is not made FAILED: it is QUEUED
\* again, with a next_attempt_after, to be dispatched when there is budget.
C31_QuotaRetryable ==
    \A id \in DOMAIN upload_queue :
       upload_queue[id].error_msg = "youtube_quota_exhausted" =>
          /\ upload_queue[id].status # "FAILED"
          /\ upload_queue[id].status = "QUEUED" => upload_queue[id].next_attempt_after # NULL

\* C32: a run whose upload the adapter reported as failed and not retryable
\* leaves the job FAILED, whatever else happens in that run; a run whose upload
\* failed retryably leaves retry_count raised by one and the job QUEUED with
\* its backoff, or FAILED at MAX_UPLOAD_ATTEMPTS; neither run writes the
\* daily-upload record, the idempotency key or the quota usage.
C32_UploadFailureClassified ==
    [][ \A w \in WorkerIds :
          /\ \A o \in {"rejected", "retryable"}, f \in FaultChoices :
                pj_upload(w, o, f) =>
                   LET old == Job(w)
                       new == upload_queue'[workers[w].id]
                   IN  /\ new.retry_count = old.retry_count + 1
                       /\ o = "rejected" => new.status = "FAILED"
                       /\ (o = "retryable" /\ new.retry_count < MAX_UPLOAD_ATTEMPTS) =>
                             /\ new.status = "QUEUED"
                             /\ new.next_attempt_after = now + Backoff(new.retry_count)
                       /\ (o = "retryable" /\ new.retry_count >= MAX_UPLOAD_ATTEMPTS) =>
                             new.status = "FAILED"
                       /\ UNCHANGED auxVars
          /\ (run_workers_except(w) /\ Job(w).error_msg = "upload_rejected") =>
                /\ upload_queue'[workers[w].id].status = "FAILED"
                /\ UNCHANGED auxVars
      ]_vars

\* C33: when the upload call of a job is made, the last recorded upload to the
\* job's destination lies at least UPLOAD_SPACING_SECONDS back, also when two
\* threads hold jobs for the same destination; and the wait at the spacing step
\* is at most the cap.
C33_MinimumSpacing ==
    [][ \A w \in WorkerIds :
          /\ (\E o \in UploadOutcomes, f \in FaultChoices : pj_upload(w, o, f)) =>
                LET last_upload == get_last_upload_time(last_upload_time, Job(w).dest_account_id)
                IN  last_upload = NULL \/ now - last_upload >= UPLOAD_SPACING_SECONDS
          /\ pj_spacing(w) => now' - now <= SPACING_SLEEP_CAP
      ]_vars

\* C34: a job at the slot step goes on only when now has reached the slot that
\* the destination's uploads of today ask for, and is requeued at exactly that
\* slot time otherwise; and when an upload call is made for a destination with
\* n uploads recorded today, now is at or after that slot, so the (n+1)-th
\* upload of a day is not made before slot n.
C34_SlotGating ==
    [][ \A w \in WorkerIds :
          LET n == get_uploads_today(daily_uploads, Job(w).dest_account_id, now)
              slot == next_slot_time(n, now)
          IN  /\ pj_slot_cap(w) =>
                    IF workers'[w].pc = "media"
                    THEN now >= slot /\ n < UPLOADS_PER_DAY_PER_DEST
                    ELSE /\ upload_queue'[workers[w].id].status = "QUEUED"
                         /\ upload_queue'[workers[w].id].next_attempt_after = slot
              /\ (\E o \in UploadOutcomes, f \in FaultChoices : pj_upload(w, o, f)) =>
                    now >= slot
      ]_vars


(***************************************************************************)
(* The poll alone: poll_and_enqueue over sheets whose candidates differ in *)
(* flag, attempts, schedule and destination cell, with mapping tables, a   *)
(* daily count that uploads fill, and Sheets calls that may fail.          *)
(***************************************************************************)
\* what a candidate row of the poll can look like
RowKinds ==
    { [tab |-> "tabA", dest |-> "yt_1", flag |-> "",        attempts |-> 0, sched |-> NULL],
      [tab |-> "tabA", dest |-> "",     flag |-> "",        attempts |-> 0, sched |-> NULL],
      [tab |-> "tabB", dest |-> " ",    flag |-> "none",    attempts |-> 0, sched |-> NULL],
      [tab |-> "tabA", dest |-> "yt_1", flag |-> "review",  attempts |-> 0, sched |-> NULL],
      [tab |-> "tabB", dest |-> "yt_2", flag |-> "review ", attempts |-> 0, sched |-> NULL],
      [tab |-> "tabA", dest |-> "yt_1", flag |-> "",        attempts |-> MAX_UPLOAD_ATTEMPTS, sched |-> NULL],
      [tab |-> "tabA", dest |-> "",     flag |-> "",        attempts |-> 0, sched |-> UPLOAD_SPACING_SECONDS],
      [tab |-> "tabB", dest |-> "yt_2", flag |-> "Review",  attempts |-> 2, sched |-> 0] }

PollRow(k, rid) ==
    [SheetRow(k.tab, rid, 50, "h", k.dest) EXCEPT
        !.manual_flag = k.flag, !.upload_attempts = k.attempts, !.scheduled_at = k.sched]

Mapping(tag, dest, active) ==
    [source_tag |-> tag, destination_account_id |-> dest, active |-> active]

\* destinations_mapping tabs and STATIC_MAPPINGS values; the Sheets API may fail
PollConfigs ==
    { [FaultyConfig EXCEPT
          !.mappings = <<Mapping("tabA", "yt_2", "true"), Mapping("tabA", "yt_1", "FALSE")>>,
          !.static_mappings = [t \in {"tabA", "tabB"} |-> "yt_1"]],
      [FaultyConfig EXCEPT
          !.mappings = <<Mapping("tabA", "yt_1", "TRUE"), Mapping("tabA", "yt_2", "TRUE"),
                         Mapping("tabB", "", "TRUE")>>,
          !.static_mappings = [t \in {"tabB"} |-> "yt_1"]],
      [FaultyConfig EXCEPT !.static_mappings = [t \in {"tabA"} |-> "yt_2"]] }

PollInit ==
    \E k1, k2 \in RowKinds, cfg \in PollConfigs :
        InitWith(<<PollRow(k1, 1), PollRow(k2, 2)>>, cfg)

\* enqueued = poll_and_enqueue(), or the exception it ends with
Call_poll_and_enqueue(read_error, note_error) ==
    LET r == PollNow(read_error, note_error) IN
    /\ do_poll_and_enqueue(r)
    /\ last' = [op |-> "poll_and_enqueue", ret |-> r.enqueued, raised |-> r.raised,
                read_error |-> read_error]
    /\ UNCHANGED main

PollNext ==
    \/ \E e, f \in FaultChoices : Call_poll_and_enqueue(e, f)
    \/ \E i \in RowIds : Call_record_upload("yt_1", i)
    \/ Tick(UPLOAD_SPACING_SECONDS)

SpecPoll == PollInit /\ [][PollNext]_vars

\* a step of the poll, and whether a job of the row at place i is in the store
PollStep == last'.op = "poll_and_enqueue"

HasJob(q, row) == KeyExists(q, row.tab, row.row_id)

\* the mappings the poll of this step has read
ReadMap == global_map(get_destination_mappings(config.mappings, last'.read_error))

\* the candidate at place i is one the claim keeps out of the store
Barred(i) ==
    \/ sheet[i].manual_flag \in {"review", "review "}
    \/ sheet[i].upload_attempts >= MAX_UPLOAD_ATTEMPTS
    \/ sheet[i].scheduled_at # NULL /\ sheet[i].scheduled_at > now

Capped(i) ==
    LET dest == ResolveDest(sheet[i], ReadMap, config.static_mappings) IN
    dest # "" /\ get_uploads_today(daily_uploads, dest, now) >= UPLOADS_PER_DAY_PER_DEST

\* what the poll owes the candidate at place i
Admission(i) ==
    /\ (Barred(i) \/ Capped(i)) => (HasJob(upload_queue', sheet[i]) <=> HasJob(upload_queue, sheet[i]))
    /\ (~Barred(i) /\ Capped(i)) => "quota_reached_today" \in sheet'[i].notes
    /\ ~(Barred(i) \/ Capped(i)) => HasJob(upload_queue', sheet[i])

\* C35: in a poll cycle no candidate that is flagged for review, has used up
\* its attempts, is scheduled for later or whose destination is at the daily
\* cap is enqueued, a candidate at the cap gets an audit note, every other
\* candidate is in the store after the poll, and the count the poll reports is
\* the number of jobs it inserted.
C35_EnqueueAdmission ==
    [][PollStep =>
          /\ \A i \in DOMAIN sheet : sheet[i].status = "READY_TO_UPLOAD" => Admission(i)
          /\ last'.ret = Cardinality(DOMAIN upload_queue') - Cardinality(DOMAIN upload_queue)
    ]_vars

\* the destinations that the active rows of the destinations_mapping tab give
\* a collection
DynamicDests(tab) ==
    { config.mappings[k].destination_account_id :
        k \in { j \in DOMAIN config.mappings :
                  /\ config.mappings[j].source_tag = tab
                  /\ config.mappings[j].active \in {"TRUE", "true"}
                  /\ config.mappings[j].destination_account_id # "" } }

\* dest is what the order of the mappings gives the candidate
ByPriority(row, dest) ==
    IF row.dest_mapping_tags \notin {"", " "} THEN dest = row.dest_mapping_tags
    ELSE IF DynamicDests(row.tab) # {} THEN dest \in DynamicDests(row.tab)
    ELSE IF row.tab \in DOMAIN config.static_mappings
         THEN dest = config.static_mappings[row.tab]
    ELSE dest = ""

\* the jobs a step has put into the store for a row
NewJobs(row) ==
    { id \in DOMAIN upload_queue' \ DOMAIN upload_queue :
        /\ upload_queue'[id].source_tab = row.tab
        /\ upload_queue'[id].row_id = row.row_id }

\* C36: the destination of every job a poll enqueues is the candidate's own
\* mapping when that is not empty, otherwise the active dynamic mapping of its
\* collection when there is one, otherwise the static mapping, and that
\* destination is below the daily cap.
C36_DestinationPriority ==
    [][PollStep =>
          \A i \in DOMAIN sheet : \A id \in NewJobs(sheet[i]) :
              /\ ByPriority(sheet[i], upload_queue'[id].dest_account_id)
              /\ upload_queue'[id].dest_account_id # ""
                   => get_uploads_today(daily_uploads, upload_queue'[id].dest_account_id, now)
                         < UPLOADS_PER_DAY_PER_DEST
    ]_vars

(***************************************************************************)
(* The credentials file (oauth_helper.py).  _update_creds_transactional    *)
(* loads, changes and saves the file under flock(LOCK_EX) on the lock      *)
(* file, so each call of it is one step; get_account reads the file        *)
(* without the lock.  A refresh is followed through its steps.             *)
(***************************************************************************)
\* a record without the key invalid_reason
NO_REASON == "<absent>"

\* the account_data that a finished OAuth handshake saves
AccountData ==
    { [platform |-> "youtube", access_token |-> "tok0", refresh_token |-> "r0",
       token_valid |-> TRUE, status |-> "active", invalid_reason |-> NO_REASON],
      [platform |-> "youtube", access_token |-> "tok0", refresh_token |-> "",
       token_valid |-> TRUE, status |-> "active", invalid_reason |-> NO_REASON],
      [platform |-> "instagram", access_token |-> "tok0", refresh_token |-> "",
       token_valid |-> TRUE, status |-> "active", invalid_reason |-> NO_REASON] }

get_account(creds, account_id) ==
    IF account_id \in DOMAIN creds THEN creds[account_id] ELSE NoAccount

save_account(creds, account_id, account_data) ==
    [a \in DOMAIN creds \cup {account_id} |->
        IF a = account_id THEN account_data ELSE creds[a]]

mark_account_invalid(creds, account_id, reason) ==
    IF account_id \in DOMAIN creds
    THEN [creds EXCEPT ![account_id].token_valid = FALSE,
                       ![account_id].status = "token_invalid",
                       ![account_id].invalid_reason = reason]
    ELSE creds

remove_account(creds, account_id) ==
    [a \in DOMAIN creds \ {account_id} |-> creds[a]]

\* the account as refresh_youtube_token changes its copy after a 200 answer
Refreshed(account) ==
    [account EXCEPT !.access_token = "tok1", !.token_valid = TRUE, !.status = "active"]

credOnly ==
    /\ UNCHANGED <<upload_queue, next_id, now, nticks>>
    /\ UNCHANGED <<sheet, daily_uploads, last_upload_time, youtube_quota,
                   idempotency_keys, workers, uploads>>
    /\ UNCHANGED <<config, destination_cleanup_jobs, main, rate_log, rotator>>

Call_save_account(account_id, account_data) ==
    /\ credentials' = save_account(credentials, account_id, account_data)
    /\ last' = [op |-> "save_account"]
    /\ UNCHANGED refresh
    /\ credOnly

Call_mark_account_invalid(account_id, reason) ==
    /\ credentials' = mark_account_invalid(credentials, account_id, reason)
    /\ last' = [op |-> "mark_account_invalid"]
    /\ UNCHANGED refresh
    /\ credOnly

Call_remove_account(account_id) ==
    /\ credentials' = remove_account(credentials, account_id)
    /\ last' = [op |-> "remove_account"]
    /\ UNCHANGED refresh
    /\ credOnly

\* account = get_account(account_id) and the two tests that follow it
refresh_get_account(p, account_id) ==
    /\ refresh[p].pc = "idle"
    /\ LET account == get_account(credentials, account_id) IN
          refresh' = [refresh EXCEPT ![p] =
              IF account = NoAccount \/ account.platform # "youtube" THEN IdleRefresh
              ELSE IF account.refresh_token = ""
              THEN [pc |-> "invalid", account_id |-> account_id, account |-> account,
                    reason |-> "no_refresh_token"]
              ELSE [pc |-> "post", account_id |-> account_id, account |-> account,
                    reason |-> ""]]
    /\ UNCHANGED <<credentials, last>>
    /\ credOnly

\* requests.post(".../token"): 200 or not
refresh_post(p, ok) ==
    /\ refresh[p].pc = "post"
    /\ refresh' = [refresh EXCEPT ![p] =
          IF ok THEN [@ EXCEPT !.pc = "save", !.account = Refreshed(@)]
          ELSE [@ EXCEPT !.pc = "invalid", !.reason = "refresh_failed"]]
    /\ UNCHANGED <<credentials, last>>
    /\ credOnly

\* mark_account_invalid(account_id, reason); return False
refresh_mark_invalid(p) ==
    /\ refresh[p].pc = "invalid"
    /\ credentials' = mark_account_invalid(credentials, refresh[p].account_id, refresh[p].reason)
    /\ refresh' = [refresh EXCEPT ![p] = IdleRefresh]
    /\ UNCHANGED last
    /\ credOnly

\* save_account(account_id, account); return True
refresh_save(p) ==
    /\ refresh[p].pc = "save"
    /\ credentials' = save_account(credentials, refresh[p].account_id, refresh[p].account)
    /\ refresh' = [refresh EXCEPT ![p] = IdleRefresh]
    /\ UNCHANGED last
    /\ credOnly

CredsNext ==
    \/ \E a \in Dests, d \in AccountData : Call_save_account(a, d)
    \/ \E a \in Dests : Call_mark_account_invalid(a, "manual")
    \/ \E a \in Dests : Call_remove_account(a)
    \/ \E p \in RefreshIds, a \in Dests : refresh_get_account(p, a)
    \/ \E p \in RefreshIds, ok \in BOOLEAN : refresh_post(p, ok)
    \/ \E p \in RefreshIds : refresh_mark_invalid(p)
    \/ \E p \in RefreshIds : refresh_save(p)

SpecCreds == Init /\ [][CredsNext]_vars

\* what a whole refresh_youtube_token(account_id) makes of the record when
\* nothing else runs, the token endpoint answering 200 or not
RefreshAlone(creds, account_id, ok) ==
    LET account == get_account(creds, account_id) IN
    IF account = NoAccount \/ account.platform # "youtube" THEN creds
    ELSE IF account.refresh_token = ""
    THEN mark_account_invalid(creds, account_id, "no_refresh_token")
    ELSE IF ok THEN save_account(creds, account_id, Refreshed(account))
    ELSE mark_account_invalid(creds, account_id, "refresh_failed")

\* C37: every update of the credential record is a read-modify-write under
\* the lock: the write of a token refresh leaves the record as the whole
\* refresh, applied to the record as it stands at that write, would leave it,
\* so the updates take effect in the order of their writes and none is lost.
C37_UpdatesSerialized ==
    [][\A p \in RefreshIds :
          (refresh[p].pc = "save" /\ refresh'[p].pc = "idle")
             => credentials' = RefreshAlone(credentials, refresh[p].account_id, TRUE)
    ]_vars

\* the job rows that are IN_PROGRESS
InProgress == { i \in DOMAIN upload_queue : upload_queue[i].status = "IN_PROGRESS" }

\* the pool threads that have a job and have not returned
InFlight == { w \in WorkerIds : workers[w].pc \notin {"idle", "done"} }

CancelRaceNext ==
    \/ PipelineNext
    \/ Call_cancel_jobs_for_dest("yt_1")

SpecCancelRace == InitWith(RowsPair, DefaultConfig) /\ [][CancelRaceNext]_vars

\* the job was canceled for its destination and no later write has changed
\* its error message
Canceled(id) ==
    /\ upload_queue[id].error_msg = ErrDestRemoved
    /\ upload_queue[id].status \in {"FAILED", "IN_PROGRESS"}

\* C39: a job that cancel_jobs_for_dest has canceled ends FAILED or COMPLETED:
\* no step puts it back to QUEUED, also not the step of a worker that had the
\* job in flight when the cancel ran.
C39_CanceledStaysTerminal ==
    [][\A id \in DOMAIN upload_queue :
          Canceled(id) => upload_queue'[id].status # "QUEUED"
    ]_vars
=============================================================================
